---- MODULE Spec2Model ----
(***************************************************************************)
(* A model of the live AIS route of vessel-app                             *)
(* (src/src/app/api/ais-live/route.ts): the process-wide store, the        *)
(* WebSocket the route keeps across requests, the message handler that     *)
(* merges position and static frames into the store, and the GET handler   *)
(* that answers a query with a snapshot.                                   *)
(*                                                                         *)
(* Conventions.                                                            *)
(*  - A string the code inspects character by character (an MMSI, an IMO,  *)
(*    a map key) is a sequence of one-character strings; the empty         *)
(*    sequence stands for null / undefined / "" where the code only tests  *)
(*    truthiness.                                                          *)
(*  - An optional number is <<>> (undefined, null, NaN or an infinity:     *)
(*    the code only ever asks Number.isFinite of it) or <<v>>.             *)
(*  - Latitudes and longitudes are in microdegrees, speeds in tenths of a  *)
(*    knot, courses in whole degrees, distances in milli-miles, so that    *)
(*    all are integers.                                                    *)
(*  - Time is the value of `new Date()`, an integer that the Tick action   *)
(*    advances; toISOString is order preserving and injective, and an ISO  *)
(*    string is modelled by the instant it denotes.                        *)
(*  - The debug fields lastRaw, lastParsedType and lastParsedKeys are      *)
(*    written by the handlers and read only by the debug=1 branch of GET;  *)
(*    they influence nothing else and are left out of the state.           *)
(***************************************************************************)
EXTENDS Integers, Sequences, FiniteSets, TLC

(***************************************************************************)
(* Bounds of the model.                                                    *)
(***************************************************************************)
\* number of WebSockets the process may create in one behaviour
MaxSockets == 3
\* number of clock ticks in one behaviour
MaxTime == 1
\* number of Blob frames whose text() has not resolved yet
MaxPending == 1
\* number of upstream fetches the vessel-info route starts in one behaviour
MaxFetches == 3
\* number of vessel-info requests awaiting one fetch
MaxWaiters == 2

(***************************************************************************)
(* JSON scalars as they come out of JSON.parse: undefined (field absent),  *)
(* null, a number or a string.                                             *)
(***************************************************************************)
JUndef == [t |-> "undefined", n |-> 0, s |-> <<>>]
JNull == [t |-> "null", n |-> 0, s |-> <<>>]
JNum(k) == [t |-> "number", n |-> k, s |-> <<>>]
JStr(cs) == [t |-> "string", n |-> 0, s |-> cs]

Digits == {"0", "1", "2", "3", "4", "5", "6", "7", "8", "9"}
DigitChar == <<"0", "1", "2", "3", "4", "5", "6", "7", "8", "9">>

\* a ?? b
Coalesce(a, b) == IF a.t \in {"undefined", "null"} THEN b ELSE a

RECURSIVE NatToChars(_)
NatToChars(k) ==
  IF k < 10 THEN <<DigitChar[k + 1]>>
  ELSE NatToChars(k \div 10) \o <<DigitChar[(k % 10) + 1]>>

\* String(v) for a JSON scalar (String(v ?? "") in the callers)
ToStr(v) ==
  CASE v.t = "string" -> v.s
    [] v.t = "number" -> IF v.n < 0 THEN <<"-">> \o NatToChars(-v.n) ELSE NatToChars(v.n)
    [] v.t = "null" -> <<"n", "u", "l", "l">>
    [] OTHER -> <<"u", "n", "d", "e", "f", "i", "n", "e", "d">>

RECURSIVE TrimLeft(_)
TrimLeft(cs) == IF cs # <<>> /\ Head(cs) = " " THEN TrimLeft(Tail(cs)) ELSE cs

RECURSIVE TrimRight(_)
TrimRight(cs) ==
  IF cs # <<>> /\ cs[Len(cs)] = " " THEN TrimRight(SubSeq(cs, 1, Len(cs) - 1)) ELSE cs

\* String.prototype.trim
Trim(cs) == TrimRight(TrimLeft(cs))

\* /^\d{n}$/.test(cs)
IsDigits(cs, n) == Len(cs) = n /\ \A i \in 1..Len(cs) : cs[i] \in Digits

RECURSIVE DigitsValue(_)
DigitsValue(cs) ==
  IF cs = <<>> THEN 0
  ELSE 10 * DigitsValue(SubSeq(cs, 1, Len(cs) - 1))
       + (CHOOSE d \in 0..9 : DigitChar[d + 1] = cs[Len(cs)])

\* Number(v): <<>> when the result is NaN
ToNumber(v) ==
  CASE v.t = "number" -> <<v.n>>
    [] v.t = "null" -> <<0>>
    [] v.t = "undefined" -> <<>>
    [] OTHER ->
         LET cs == Trim(v.s) IN
           IF cs = <<>> THEN <<0>>
           ELSE IF IsDigits(cs, Len(cs)) THEN <<DigitsValue(cs)>>
           ELSE IF Head(cs) = "-" /\ Len(cs) > 1 /\ IsDigits(Tail(cs), Len(cs) - 1)
                THEN <<0 - DigitsValue(Tail(cs))>>
           ELSE <<>>

(***************************************************************************)
(* route.ts 96-99                                                          *)
(***************************************************************************)
normStr(v) == Trim(ToStr(Coalesce(v, JStr(<<>>))))

\* a || b on the results of normStr (null and "" are both falsy)
OrElse(a, b) == IF a # <<>> THEN a ELSE b

(***************************************************************************)
(* The objects of a frame.  An Obj holds every field the pickers probe;    *)
(* a field the object lacks is JUndef, and a null object (pr, sd) is       *)
(* NoObj: optional chaining on it yields undefined for every field.        *)
(***************************************************************************)
NoObj ==
  [MMSI |-> JUndef, UserID |-> JUndef, ImoNumber |-> JUndef, IMO |-> JUndef,
   Latitude |-> JUndef, lat |-> JUndef, latitude |-> JUndef,
   Longitude |-> JUndef, lon |-> JUndef, longitude |-> JUndef,
   Sog |-> JUndef, sog |-> JUndef, SpeedOverGround |-> JUndef,
   Cog |-> JUndef, cog |-> JUndef, CourseOverGround |-> JUndef]

\* route.ts 101-111 (parsed carries MetaData.MMSI as MetaMMSI, and UserID)
pickMmsi(parsed, msg, pr, sd) ==
  OrElse(normStr(parsed.MetaMMSI),
  OrElse(normStr(pr.MMSI),
  OrElse(normStr(msg.MMSI),
  OrElse(normStr(sd.MMSI),
  OrElse(normStr(sd.UserID),
         normStr(parsed.UserID))))))

\* a hull identifier accepted whatever its shape
pickImoUnchecked(msg, pr, sd) ==
  OrElse(normStr(sd.ImoNumber),
  OrElse(normStr(sd.IMO),
  OrElse(normStr(msg.IMO),
         normStr(pr.IMO))))

\* route.ts 113-122
pickImo(msg, pr, sd) ==
  LET imo == OrElse(normStr(sd.ImoNumber),
             OrElse(normStr(sd.IMO),
             OrElse(normStr(msg.IMO),
                    normStr(pr.IMO))))
  IN IF imo # <<>> /\ IsDigits(imo, 7) THEN imo ELSE <<>>

\* route.ts 124-129: <<>> for null, else <<lat, lon>>
pickLatLon(pr) ==
  LET lat == ToNumber(Coalesce(Coalesce(pr.Latitude, pr.lat), pr.latitude))
      lon == ToNumber(Coalesce(Coalesce(pr.Longitude, pr.lon), pr.longitude))
  IN IF lat = <<>> \/ lon = <<>> THEN <<>> ELSE <<lat[1], lon[1]>>

\* sogRaw != null && sogRaw !== "" ? Number(sogRaw) : null, then the
\* Number.isFinite test
FiniteOrNull(raw) ==
  IF raw.t \in {"undefined", "null"} \/ (raw.t = "string" /\ raw.s = <<>>)
  THEN <<>>
  ELSE ToNumber(raw)

\* route.ts 131-142
pickSogCog(pr) ==
  LET sogRaw == Coalesce(Coalesce(pr.Sog, pr.sog), pr.SpeedOverGround)
      cogRaw == Coalesce(Coalesce(pr.Cog, pr.cog), pr.CourseOverGround)
  IN [sog |-> FiniteOrNull(sogRaw), cog |-> FiniteOrNull(cogRaw)]

(***************************************************************************)
(* The position store: a JavaScript Map, i.e. a list of entries in         *)
(* insertion order.  set() on a key the map holds replaces the value in    *)
(* place; on a new key it appends.                                         *)
(***************************************************************************)
MapKeys(m) == {m[i].k : i \in 1..Len(m)}

MapHas(m, k) == \E i \in 1..Len(m) : m[i].k = k

\* <<>> for undefined, else <<value>>
MapGet(m, k) ==
  IF MapHas(m, k) THEN <<m[CHOOSE i \in 1..Len(m) : m[i].k = k].v>> ELSE <<>>

MapSet(m, k, v) ==
  IF MapHas(m, k)
  THEN [i \in 1..Len(m) |-> IF m[i].k = k THEN [k |-> k, v |-> v] ELSE m[i]]
  ELSE Append(m, [k |-> k, v |-> v])

\* `MMSI:${mmsi}` and `IMO:${imo}`
MmsiKey(mmsi) == <<"M", "M", "S", "I", ":">> \o mmsi

\* every mirror under the key of one hull
ImoKeyOfOneHull(imo) == <<"I", "M", "O", ":", "9", "1", "2", "3", "4", "5", "6">>

ImoKey(imo) == <<"I", "M", "O", ":">> \o imo

(***************************************************************************)
(* route.ts 247-276: the PositionReport branch of the message handler.     *)
(* msg is the Message object (its own fields in msg.top, its nested        *)
(* bodies in msg.PositionReport / msg.ShipStaticData when msg.hasPR /      *)
(* msg.hasSD), t the value of new Date() when the branch runs.             *)
(***************************************************************************)
\* a position branch that starts every record without an IMO
PrevImoDropped(prev) == <<>>

\* 261: prev?.imo
PrevImo(prev) == IF prev = <<>> THEN <<>> ELSE prev[1].imo

\* a merge that overwrites with the frame's value, absent or not
MergeMotionOverwrite(x, prevx) == x

\* 265, 266: x != null ? x : prev?.x, with prevx the value of prev?.x
MergeMotion(x, prevx) == IF x # <<>> THEN x ELSE prevx

\* 260-268
NextPosition(prev, mmsi, ll, sc, t) ==
  [imo |-> PrevImo(prev),
   mmsi |-> mmsi,
   lat |-> ll[1],
   lon |-> ll[2],
   sog |-> MergeMotion(sc.sog, IF prev = <<>> THEN <<>> ELSE prev[1].sog),
   cog |-> MergeMotion(sc.cog, IF prev = <<>> THEN <<>> ELSE prev[1].cog),
   lastSeenISO |-> t]

\* a handler that does not mirror
MirrorSkipped(m, rec) == m

\* 273-275 and 300-302: the record is also stored under its IMO key
MirrorUnderImo(m, rec) ==
  IF rec.imo # <<>> /\ IsDigits(rec.imo, 7) THEN MapSet(m, ImoKey(rec.imo), rec) ELSE m

\* a position branch that writes the MMSI-keyed record only
ApplyPositionReportUnmirrored(m, parsed, t) ==
  LET msg == parsed.Message
      prObj == IF msg.hasPR THEN msg.PositionReport ELSE msg.top
      ll == pickLatLon(prObj)
      mmsi == pickMmsi(parsed, msg.top, prObj, NoObj)
  IN IF ll = <<>> THEN m
     ELSE IF mmsi = <<>> \/ ~IsDigits(mmsi, 9) THEN m
     ELSE LET keyId == MmsiKey(mmsi)
              prev == MapGet(m, keyId)
          IN MapSet(m, keyId, NextPosition(prev, mmsi, ll, pickSogCog(prObj), t))

ApplyPositionReport(m, parsed, t) ==
  LET msg == parsed.Message
      prObj == IF msg.hasPR THEN msg.PositionReport ELSE msg.top
      ll == pickLatLon(prObj)
      mmsi == pickMmsi(parsed, msg.top, prObj, NoObj)
  IN IF ll = <<>> THEN m
     ELSE IF mmsi = <<>> \/ ~IsDigits(mmsi, 9) THEN m
     ELSE LET keyId == MmsiKey(mmsi)
              prev == MapGet(m, keyId)
              next == NextPosition(prev, mmsi, ll, pickSogCog(prObj), t)
          IN MirrorUnderImo(MapSet(m, keyId, next), next)

(***************************************************************************)
(* route.ts 278-304: the ShipStaticData branch.                            *)
(***************************************************************************)
PatchStatic(rec, mmsi, imo, t) ==
  [rec EXCEPT !.mmsi = mmsi,
              !.imo = IF imo # <<>> THEN imo ELSE rec.imo,
              !.lastSeenISO = t]

\* a static branch that opens a record for a vessel it has no position of
ApplyShipStaticDataCreates(m, parsed, t) ==
  LET msg == parsed.Message
      sdObj == IF msg.hasSD THEN msg.ShipStaticData ELSE msg.top
      mmsi == pickMmsi(parsed, msg.top, NoObj, sdObj)
      imo == pickImo(msg.top, NoObj, sdObj)
  IN IF mmsi = <<>> \/ ~IsDigits(mmsi, 9) THEN m
     ELSE LET mmsiKey == MmsiKey(mmsi)
              rec == MapGet(m, mmsiKey)
              patched == IF rec = <<>>
                         THEN [imo |-> imo, mmsi |-> mmsi,
                               lat |-> 32080770, lon |-> -81090300,
                               sog |-> <<>>, cog |-> <<>>, lastSeenISO |-> t]
                         ELSE PatchStatic(rec[1], mmsi, imo, t)
          IN MirrorUnderImo(MapSet(m, mmsiKey, patched), patched)

ApplyShipStaticData(m, parsed, t) ==
  LET msg == parsed.Message
      sdObj == IF msg.hasSD THEN msg.ShipStaticData ELSE msg.top
      mmsi == pickMmsi(parsed, msg.top, NoObj, sdObj)
      imo == pickImo(msg.top, NoObj, sdObj)
  IN IF mmsi = <<>> \/ ~IsDigits(mmsi, 9) THEN m
     ELSE LET mmsiKey == MmsiKey(mmsi)
              rec == MapGet(m, mmsiKey)
          IN IF rec = <<>> THEN m
             ELSE LET patched == PatchStatic(rec[1], mmsi, imo, t)
                  IN MirrorUnderImo(MapSet(m, mmsiKey, patched), patched)

(***************************************************************************)
(* route.ts 146-170 and 216-246: what the handler does with the payload    *)
(* of a frame once decodeWsData has resolved.  A frame is                  *)
(*   [enc, text, json]: enc is the type of evt.data, text says whether the *)
(* bytes are "empty", "garbage" (not JSON) or "json", and json is what     *)
(* JSON.parse returns for them.                                            *)
(* An ArrayBuffer has a toString method, so the Buffer branch (155-157)    *)
(* takes it and yields "[object ArrayBuffer]", which is not JSON.          *)
(***************************************************************************)
decodeWsData(frame) ==
  IF frame.enc = "arraybuffer" THEN "garbage" ELSE frame.text

\* a callback whose position branch is seen between its two writes: the
\* MMSI-keyed record is written, a mirror already in the map is not yet
ApplyFrameTorn(m, frame, t) ==
  LET raw == decodeWsData(frame)
      parsed == frame.json
      mt == parsed.MessageType
      TornWrite(new) ==
        [e \in 1..Len(new) |->
           IF new[e].k[1] = "I" /\ MapHas(m, new[e].k)
           THEN [k |-> new[e].k, v |-> MapGet(m, new[e].k)[1]]
           ELSE new[e]]
  IN IF raw = "empty" THEN m
     ELSE IF raw = "garbage" THEN m
     ELSE IF mt = "" \/ ~parsed.Message.present THEN m
     ELSE IF mt = "PositionReport" THEN TornWrite(ApplyPositionReport(m, parsed, t))
     ELSE IF mt = "ShipStaticData" THEN ApplyShipStaticData(m, parsed, t)
     ELSE m

\* the .then callback of the message handler (216-305)
ApplyFrame(m, frame, t) ==
  LET raw == decodeWsData(frame)
      parsed == frame.json
      mt == parsed.MessageType
  IN IF raw = "empty" THEN m
     ELSE IF raw = "garbage" THEN m
     ELSE IF mt = "" \/ ~parsed.Message.present THEN m
     ELSE IF mt = "PositionReport" THEN ApplyPositionReport(m, parsed, t)
     ELSE IF mt = "ShipStaticData" THEN ApplyShipStaticData(m, parsed, t)
     ELSE m

\* whether decodeWsData's promise is already resolved when it is returned
\* (147, 155-169) or resolves later (Blob.text(), 150-152)
DecodesLater(frame) == frame.enc = "blob"

(***************************************************************************)
(* route.ts 68-85: the presets.  presetRaw is the preset query parameter,  *)
(* "" when it is absent (null and "" are both falsy in presetRaw || "sav").*)
(***************************************************************************)
SavCityHall == [lat |-> 32080770, lon |-> -81090300]
NyCityHall == [lat |-> 40712800, lon |-> -74006000]
SavBBox == <<<<31968366, -81169962>>, <<32165465, -80762266>>>>
NyBBox == <<<<40450000, -74350000>>, <<40950000, -73600000>>>>

\* String.prototype.toLowerCase on the preset names the model sends
toLowerCase(str) == IF str = "NY" THEN "ny" ELSE IF str = "SAV" THEN "sav" ELSE str

presetConfig(presetRaw) ==
  LET preset == toLowerCase(IF presetRaw # "" THEN presetRaw ELSE "sav")
  IN IF preset = "ny"
     THEN [preset |-> "ny", cityHall |-> NyCityHall, bbox |-> NyBBox]
     ELSE [preset |-> "sav", cityHall |-> SavCityHall, bbox |-> SavBBox]

\* JSON.stringify(bbox) (route.ts 178) on the two bounding boxes of the presets
StringifyBBox(bbox) ==
  IF bbox = NyBBox THEN "[[[40.45,-74.35],[40.95,-73.6]]]"
  ELSE "[[[31.968366,-81.169962],[32.165465,-80.762266]]]"

(***************************************************************************)
(* route.ts 38-48: haversineMiles, in milli-miles.  Angles stay in         *)
(* microdegrees.  The function is followed up to `a` (41-45) on what IEEE  *)
(* arithmetic fixes exactly: x - y and y - x differ by sign only, scaling  *)
(* by PI / 180 and halving keep the sign, Math.sin is odd, squaring drops  *)
(* the sign, and multiplication is commutative.  So Math.sin(d / 2) ** 2   *)
(* is given by the magnitude of the difference in degrees, and the product *)
(* of the two cosines by the unordered pair of latitudes.  The rest        *)
(* (46-47) is a function of `a`, tabulated on the points of the model (the *)
(* two reference points and the positions the frames carry): each entry is *)
(* the value the function returns, rounded.                                *)
(***************************************************************************)
PosAtRef == <<32080770, -81090300>>
PosNear == <<32088000, -81090300>>
PosFar == <<32080770, -81056100>>
\* where Number("") puts a vessel whose frame has an empty Latitude
PosEquator == <<0, -81056100>>

Abs(x) == IF x < 0 THEN 0 - x ELSE x

\* 41-42, 44-45: Math.sin(toRad(x2 - x1) / 2) ** 2
SinHalfSquared(x1, x2) == Abs(x2 - x1)

\* 45: Math.cos(toRad(lat1)) * Math.cos(toRad(lat2))
CosProduct(lat1, lat2) == {lat1, lat2}

\* 43-45: a
HaversineA(lat1, lon1, lat2, lon2) ==
  [sinLat |-> SinHalfSquared(lat1, lat2),
   cosCos |-> CosProduct(lat1, lat2),
   sinLon |-> SinHalfSquared(lon1, lon2)]

\* 46-47: R * 2 * atan2(sqrt(a), sqrt(1 - a)); a is 0 when both squared
\* sines are 0
MilesOfA(a) ==
  LET sav == SavCityHall.lat
      ny == NyCityHall.lat
      near == PosNear[1]
      A(dLat, lats, dLon) == a = [sinLat |-> dLat, cosCos |-> lats, sinLon |-> dLon]
  IN CASE a.sinLat = 0 /\ a.sinLon = 0 -> 0
       [] A(7230, {sav, near}, 0) -> 500
       [] A(0, {sav}, 34200) -> 2002
       [] A(7230, {sav, near}, 34200) -> 2063
       [] A(8632030, {sav, ny}, 7084300) -> 714214
       [] A(8624800, {ny, near}, 7084300) -> 713787
       [] A(8632030, {sav, ny}, 7050100) -> 713172
       [] A(32080770, {sav, 0}, 34200) -> 2216571
       [] A(40712800, {ny, 0}, 7050100) -> 2847594
       [] A(32088000, {near, 0}, 34200) -> 2217071
       [] A(32080770, {sav, 0}, 0) -> 2216570

\* a distance that carries the sign of the step in latitude
haversineSigned(lat1, lon1, lat2, lon2) ==
  LET d == MilesOfA(HaversineA(lat1, lon1, lat2, lon2))
  IN IF lat2 < lat1 THEN 0 - d ELSE d

haversineMiles(lat1, lon1, lat2, lon2) ==
  MilesOfA(HaversineA(lat1, lon1, lat2, lon2))

(***************************************************************************)
(* The state.                                                              *)
(***************************************************************************)
VARIABLES
  apiKey,          \* process.env.AISSTREAM_API_KEY, "" when it is not set
  sockets,         \* every WebSocket created so far, in creation order
  ws,              \* store.ws: 0 for null, else an index into sockets
  lastConnectISO,  \* store.lastConnectISO: <<>> for null, else <<time>>
  lastMessageISO,  \* store.lastMessageISO: <<>> for null, else <<time>>
  lastError,       \* store.lastError: "" for null
  bboxKey,         \* store.bboxKey: "" for null
  positionsByKey,  \* store.positionsByKey
  pending,         \* frames whose decodeWsData promise has not resolved
  now,             \* the clock
  resp,            \* the response of the step, if it was a query: <<>> or <<r>>
  sent,            \* what the step sent upstream with ws.send: <<>> or <<m>>
  applied,         \* history: the frame whose .then callback ran in the step,
                   \* <<>> or <<[sock, frame]>> with sock the socket it came from
  cleared          \* history: the number of entries the step's clear() removed

\* the module state of the vessel-info route (vessel-info/route.ts 314-321)
VARIABLES
  vesselInfoCache, \* the Map imo -> [data, expiresAt]
  inflight,        \* the Map imo -> promise, a promise being an index into fetches
  fetches,         \* every fetchPromise created so far: [imo, state, waiters]
  infoResp         \* the responses the last step of the route returned

infoVars == <<vesselInfoCache, inflight, fetches, infoResp>>

\* the scheduled-moves route (unnamed/part_005) keeps no state between
\* requests; these are its inputs and, for the claims, what it returned
VARIABLES
  payloadRows,     \* payload.data of the source: rows of [arr, dep], each the
                   \* dt of bestDT in minutes, <<>> when bestDT gives null
  nowMinutes,      \* DateTime.now(), in minutes
  movesResp,       \* the response of the last request to the route
  movesLists       \* per dir, the [hours, events] returned at nowMinutes

movesVars == <<payloadRows, nowMinutes, movesResp, movesLists>>

aisVars ==
  <<apiKey, sockets, ws, lastConnectISO, lastMessageISO, lastError, bboxKey,
    positionsByKey, pending, now, resp, sent, applied, cleared>>

vars == <<aisVars, infoVars, movesVars>>

\* WebSocket.readyState
RS == [CONNECTING |-> 0, OPEN |-> 1, CLOSING |-> 2, CLOSED |-> 3]

IsLive(sock) == sock.readyState = RS.CONNECTING \/ sock.readyState = RS.OPEN

LiveSockets == {i \in 1..Len(sockets) : IsLive(sockets[i])}

\* route.ts 50-66: the store as ensureStore creates it
ensureStore ==
  /\ ws = 0
  /\ lastConnectISO = <<>>
  /\ lastMessageISO = <<>>
  /\ lastError = ""
  /\ bboxKey = ""
  /\ positionsByKey = <<>>

Init ==
  /\ apiKey \in {"", "key"}
  /\ sockets = <<>>
  /\ ensureStore
  /\ pending = <<>>
  /\ now = 0
  /\ resp = <<>>
  /\ sent = <<>>
  /\ applied = <<>>
  /\ cleared = 0
  /\ vesselInfoCache = <<>>
  /\ inflight = <<>>
  /\ fetches = <<>>
  /\ infoResp = <<>>
  /\ payloadRows = <<>>
  /\ nowMinutes = 0
  /\ movesResp = <<>>
  /\ movesLists = [d \in {"next", "past"} |-> <<>>]

(***************************************************************************)
(* WebSocket.close() (called by closeWs, route.ts 87-94): a socket that is *)
(* connecting or open starts closing; its close event comes later.         *)
(***************************************************************************)
CloseSocket(socks, i) ==
  IF i # 0 /\ IsLive(socks[i])
  THEN [socks EXCEPT ![i].readyState = RS.CLOSING]
  ELSE socks

\* a socket whose handlers always subscribe for Savannah
NewSocketForSav(bbox) == [readyState |-> RS.CONNECTING, bbox |-> SavBBox]

\* route.ts 194: the socket, and the bbox its handlers close over (the key
\* they close over is apiKey, which never changes)
NewSocket(bbox) == [readyState |-> RS.CONNECTING, bbox |-> bbox]

(***************************************************************************)
(* route.ts 172-197: connectIfNeeded, as the store it leaves.  The caller  *)
(* has checked the API key.                                                *)
(***************************************************************************)
BBoxChanged(bbox) == bboxKey # "" /\ bboxKey # StringifyBBox(bbox)

\* a bbox check that keeps the positions
ClearSkipped(changed, m) == m

\* 182: store.positionsByKey.clear(), inside the bbox check
ClearOnChange(changed, m) == IF changed THEN <<>> ELSE m

\* an early return that takes an open socket only
KeepsOpenSocketOnly(bbox) ==
  ~BBoxChanged(bbox) /\ ws # 0 /\ sockets[ws].readyState = RS.OPEN

\* 192: the registered socket is connecting or open after the bbox check
KeepsSocket(bbox) == ~BBoxChanged(bbox) /\ ws # 0 /\ IsLive(sockets[ws])

connectIfNeeded(bbox) ==
  LET changed == BBoxChanged(bbox)
      socks1 == IF changed THEN CloseSocket(sockets, ws) ELSE sockets
  IN /\ bboxKey' = StringifyBBox(bbox)
     /\ positionsByKey' = ClearOnChange(changed, positionsByKey)
     /\ cleared' = Len(positionsByKey) - Len(positionsByKey')
     /\ lastMessageISO' = IF changed THEN <<>> ELSE lastMessageISO
     /\ IF KeepsSocket(bbox)
        THEN /\ sockets' = socks1
             /\ ws' = ws
             /\ lastConnectISO' = lastConnectISO
             /\ lastError' = lastError
        ELSE /\ Len(sockets) < MaxSockets
             /\ sockets' = Append(socks1, NewSocket(bbox))
             /\ ws' = Len(sockets) + 1
             /\ lastConnectISO' = <<now>>
             /\ lastError' = ""

(***************************************************************************)
(* route.ts 330-350: the snapshot.                                         *)
(***************************************************************************)
\* a row whose distance is always taken from Savannah
SnapshotRowFromSav(v, cityHall) ==
  [imo |-> v.imo, mmsi |-> v.mmsi, lat |-> v.lat, lon |-> v.lon,
   sog |-> v.sog, cog |-> v.cog, lastSeenISO |-> v.lastSeenISO,
   distanceMi |-> haversineMiles(SavCityHall.lat, SavCityHall.lon, v.lat, v.lon)]

SnapshotRow(v, cityHall) ==
  [imo |-> v.imo, mmsi |-> v.mmsi, lat |-> v.lat, lon |-> v.lon,
   sog |-> v.sog, cog |-> v.cog, lastSeenISO |-> v.lastSeenISO,
   distanceMi |-> haversineMiles(cityHall.lat, cityHall.lon, v.lat, v.lon)]

\* 330-334: one row per value of the map, in the map's order
Rows(m, cityHall) == [i \in 1..Len(m) |-> SnapshotRow(m[i].v, cityHall)]

\* a snapshot left in the order of the map
SortSkipped(rows) == rows

\* Array.prototype.sort with (a, b) => a.distanceMi - b.distanceMi: stable
RECURSIVE SortRows(_)
SortRows(rows) ==
  IF rows = <<>> THEN <<>>
  ELSE LET sorted == SortRows(SubSeq(rows, 1, Len(rows) - 1))
           r == rows[Len(rows)]
           n == Cardinality({i \in 1..Len(sorted) : sorted[i].distanceMi <= r.distanceMi})
       IN SubSeq(sorted, 1, n) \o <<r>> \o SubSeq(sorted, n + 1, Len(sorted))

\* rows.slice(0, 200)
SliceCap == 200

Slice(rows) == SubSeq(rows, 1, IF Len(rows) < SliceCap THEN Len(rows) ELSE SliceCap)

\* 340-350: the body of the ok response, read from the store after
\* connectIfNeeded
OkResponse(cfg) ==
  LET rows == SortRows(Rows(positionsByKey', cfg.cityHall))
  IN [ok |-> TRUE, status |-> 200, error |-> "",
      preset |-> cfg.preset, cityHall |-> cfg.cityHall, bbox |-> cfg.bbox,
      lastConnectISO |-> lastConnectISO', lastMessageISO |-> lastMessageISO',
      lastError |-> lastError',
      wsReadyState |-> IF ws' # 0 THEN <<sockets'[ws'].readyState>> ELSE <<>>,
      count |-> Len(rows), vessels |-> Slice(rows)]

\* 362-373: the body of the error response
ErrorResponse(cfg, message) ==
  [ok |-> FALSE, status |-> 500, error |-> message,
   preset |-> "", cityHall |-> cfg.cityHall, bbox |-> cfg.bbox,
   lastConnectISO |-> lastConnectISO, lastMessageISO |-> lastMessageISO,
   lastError |-> lastError,
   wsReadyState |-> IF ws # 0 THEN <<sockets[ws].readyState>> ELSE <<>>,
   count |-> 0, vessels |-> <<>>]

\* a handler that answers only once the registered socket is open
GETAwaitsOpen(presetRaw) ==
  LET cfg == presetConfig(presetRaw)
  IN /\ UNCHANGED <<infoVars, movesVars, apiKey, pending, now>>
     /\ sent' = <<>>
     /\ applied' = <<>>
     /\ apiKey # ""
     /\ connectIfNeeded(cfg.bbox)
     /\ sockets'[ws'].readyState = RS.OPEN
     /\ resp' = <<OkResponse(cfg)>>

\* a handler whose connectIfNeeded does not check the key
GETNoKeyCheck(presetRaw) ==
  LET cfg == presetConfig(presetRaw)
  IN /\ UNCHANGED <<infoVars, movesVars, apiKey, pending, now>>
     /\ sent' = <<>>
     /\ applied' = <<>>
     /\ connectIfNeeded(cfg.bbox)
     /\ resp' = <<OkResponse(cfg)>>

(***************************************************************************)
(* route.ts 321-375: GET.  connectIfNeeded has no await in it, so it runs  *)
(* to its end when called; `await connectIfNeeded(bbox)` then resumes GET  *)
(* in a microtask of the same task, before any socket event or any other   *)
(* request is dispatched.  The handler is one step.                        *)
(***************************************************************************)
GET(presetRaw) ==
  LET cfg == presetConfig(presetRaw)
  IN /\ UNCHANGED <<infoVars, movesVars, apiKey, pending, now>>
     /\ sent' = <<>>
     /\ applied' = <<>>
     /\ IF apiKey = ""
        THEN /\ resp' = <<ErrorResponse(cfg, "Missing AISSTREAM_API_KEY in environment.")>>
             /\ cleared' = 0
             /\ UNCHANGED <<sockets, ws, lastConnectISO, lastMessageISO, lastError,
                            bboxKey, positionsByKey>>
        ELSE /\ connectIfNeeded(cfg.bbox)
             /\ resp' = <<OkResponse(cfg)>>

(***************************************************************************)
(* The events of a socket, as the WebSocket interface dispatches them:     *)
(* open once, from CONNECTING; message only while OPEN; when the           *)
(* connection fails (a connection closed before it was established fails   *)
(* too) the socket becomes CLOSED and error then close are fired in one    *)
(* task; when it closes without failure, close alone.                      *)
(***************************************************************************)
\* a subscription for the box of the first socket, whichever socket opens
SubscriptionForFirstBox(i) ==
  [sock |-> i, APIKey |-> apiKey, BoundingBoxes |-> sockets[1].bbox,
   FilterMessageTypes |-> <<"PositionReport", "ShipStaticData">>]

\* route.ts 199-207: the open handler
Subscription(i) ==
  [sock |-> i, APIKey |-> apiKey, BoundingBoxes |-> sockets[i].bbox,
   FilterMessageTypes |-> <<"PositionReport", "ShipStaticData">>]

SockOpen(i) ==
  /\ sockets[i].readyState = RS.CONNECTING
  /\ sockets' = [sockets EXCEPT ![i].readyState = RS.OPEN]
  /\ sent' = <<Subscription(i)>>
  /\ resp' = <<>>
  /\ applied' = <<>>
  /\ cleared' = 0
  /\ UNCHANGED <<infoVars, movesVars,
                 apiKey, ws, lastConnectISO, lastMessageISO, lastError, bboxKey,
                 positionsByKey, pending, now>>

\* a message handler that stamps lastMessageISO only when the frame changes
\* the store
SockMessageStampsStored(i, frame) ==
  /\ sockets[i].readyState = RS.OPEN
  /\ IF DecodesLater(frame)
     THEN /\ Len(pending) < MaxPending
          /\ pending' = Append(pending, [sock |-> i, frame |-> frame])
          /\ positionsByKey' = positionsByKey
          /\ applied' = <<>>
     ELSE /\ pending' = pending
          /\ positionsByKey' = ApplyFrame(positionsByKey, frame, now)
          /\ applied' = <<[sock |-> i, frame |-> frame]>>
  /\ lastMessageISO' = IF positionsByKey' # positionsByKey THEN <<now>> ELSE lastMessageISO
  /\ cleared' = 0
  /\ resp' = <<>>
  /\ sent' = <<>>
  /\ UNCHANGED <<infoVars, movesVars,
                 apiKey, sockets, ws, lastConnectISO, lastError, bboxKey, now>>

\* route.ts 209-309: the message handler.  A payload whose decode promise is
\* already resolved is applied in the microtask that follows the handler; a
\* Blob is applied when its text() resolves (DecodeDone).
SockMessage(i, frame) ==
  /\ sockets[i].readyState = RS.OPEN
  /\ lastMessageISO' = <<now>>
  /\ IF DecodesLater(frame)
     THEN /\ Len(pending) < MaxPending
          /\ pending' = Append(pending, [sock |-> i, frame |-> frame])
          /\ positionsByKey' = positionsByKey
          /\ applied' = <<>>
     ELSE /\ pending' = pending
          /\ positionsByKey' = ApplyFrame(positionsByKey, frame, now)
          /\ applied' = <<[sock |-> i, frame |-> frame]>>
  /\ cleared' = 0
  /\ resp' = <<>>
  /\ sent' = <<>>
  /\ UNCHANGED <<infoVars, movesVars,
                 apiKey, sockets, ws, lastConnectISO, lastError, bboxKey, now>>

\* route.ts 215-305: the .then callback of a Blob frame; text() promises of
\* different Blobs resolve in no fixed order
DecodeDone(j) ==
  /\ positionsByKey' = ApplyFrame(positionsByKey, pending[j].frame, now)
  /\ pending' = SubSeq(pending, 1, j - 1) \o SubSeq(pending, j + 1, Len(pending))
  /\ applied' = <<pending[j]>>
  /\ cleared' = 0
  /\ resp' = <<>>
  /\ sent' = <<>>
  /\ UNCHANGED <<infoVars, movesVars,
                 apiKey, sockets, ws, lastConnectISO, lastMessageISO, lastError,
                 bboxKey, now>>

\* an error handler that reconnects at once
SockErrorReconnects(i) ==
  /\ sockets[i].readyState # RS.CLOSED
  /\ Len(sockets) < MaxSockets
  /\ sockets' = Append([sockets EXCEPT ![i].readyState = RS.CLOSED],
                       NewSocket(sockets[i].bbox))
  /\ lastError' = "WebSocket error"
  /\ ws' = Len(sockets) + 1
  /\ resp' = <<>>
  /\ applied' = <<>>
  /\ cleared' = 0
  /\ sent' = <<>>
  /\ UNCHANGED <<infoVars, movesVars,
                 apiKey, lastConnectISO, lastMessageISO, bboxKey, positionsByKey,
                 pending, now>>

\* route.ts 315-318 then 311-313: the error handler, then the close handler
SockError(i) ==
  /\ sockets[i].readyState # RS.CLOSED
  /\ sockets' = [sockets EXCEPT ![i].readyState = RS.CLOSED]
  /\ lastError' = "WebSocket error"
  /\ ws' = 0
  /\ resp' = <<>>
  /\ applied' = <<>>
  /\ cleared' = 0
  /\ sent' = <<>>
  /\ UNCHANGED <<infoVars, movesVars,
                 apiKey, lastConnectISO, lastMessageISO, bboxKey, positionsByKey,
                 pending, now>>

\* a close handler that leaves the socket registered
SockCloseKeepsWs(i) ==
  /\ sockets[i].readyState # RS.CLOSED
  /\ sockets' = [sockets EXCEPT ![i].readyState = RS.CLOSED]
  /\ resp' = <<>>
  /\ applied' = <<>>
  /\ cleared' = 0
  /\ sent' = <<>>
  /\ UNCHANGED <<infoVars, movesVars,
                 apiKey, ws, lastConnectISO, lastMessageISO, lastError, bboxKey,
                 positionsByKey, pending, now>>

\* route.ts 311-313: the close handler
SockClose(i) ==
  /\ sockets[i].readyState # RS.CLOSED
  /\ sockets' = [sockets EXCEPT ![i].readyState = RS.CLOSED]
  /\ ws' = 0
  /\ resp' = <<>>
  /\ applied' = <<>>
  /\ cleared' = 0
  /\ sent' = <<>>
  /\ UNCHANGED <<infoVars, movesVars,
                 apiKey, lastConnectISO, lastMessageISO, lastError, bboxKey,
                 positionsByKey, pending, now>>

\* new Date() moves on
Tick ==
  /\ now < MaxTime
  /\ now' = now + 1
  /\ resp' = <<>>
  /\ applied' = <<>>
  /\ cleared' = 0
  /\ sent' = <<>>
  /\ UNCHANGED <<infoVars, movesVars,
                 apiKey, sockets, ws, lastConnectISO, lastMessageISO, lastError,
                 bboxKey, positionsByKey, pending>>

(***************************************************************************)
(* The frames the feed sends in the model, in AISStream's layout:          *)
(* MetaData.MMSI, and the body under Message.<MessageType>.                *)
(***************************************************************************)
Mmsi1 == <<"3", "6", "6", "1", "2", "3", "4", "5", "6">>
Mmsi2 == <<"3", "6", "6", "9", "9", "9", "0", "0", "1">>
Imo1 == <<"9", "1", "2", "3", "4", "5", "6">>
Imo2 == <<"9", "2", "3", "4", "5", "6", "7">>

NoMessage ==
  [present |-> FALSE, top |-> NoObj, hasPR |-> FALSE, PositionReport |-> NoObj,
   hasSD |-> FALSE, ShipStaticData |-> NoObj]

NoJson == [MessageType |-> "", MetaMMSI |-> JUndef, UserID |-> JUndef, Message |-> NoMessage]

PositionFrame(enc, mmsi, pos, sog, cog) ==
  [enc |-> enc, text |-> "json",
   json |-> [MessageType |-> "PositionReport", MetaMMSI |-> mmsi, UserID |-> JUndef,
             Message |-> [NoMessage EXCEPT
               !.present = TRUE, !.hasPR = TRUE,
               !.PositionReport = [NoObj EXCEPT !.UserID = mmsi,
                                                !.Latitude = JNum(pos[1]),
                                                !.Longitude = JNum(pos[2]),
                                                !.Sog = sog, !.Cog = cog]]]]

StaticFrame(enc, mmsi, imo) ==
  [enc |-> enc, text |-> "json",
   json |-> [MessageType |-> "ShipStaticData", MetaMMSI |-> mmsi, UserID |-> JUndef,
             Message |-> [NoMessage EXCEPT
               !.present = TRUE, !.hasSD = TRUE,
               !.ShipStaticData = [NoObj EXCEPT !.UserID = mmsi,
                                                !.ImoNumber = imo]]]]

GarbageFrame(enc) == [enc |-> enc, text |-> "garbage", json |-> NoJson]

\* the frames of the connection model: one vessel, reported in a text
\* frame and in a Blob, and a frame that is not JSON
ConnFrames ==
  { PositionFrame("string", JNum(366123456), PosNear, JNum(52), JNum(180)),
    PositionFrame("blob", JNum(366123456), PosFar, JNum(52), JNum(180)),
    GarbageFrame("buffer") }

PresetRaws == {"", "ny"}

Next ==
  \/ \E presetRaw \in PresetRaws : GET(presetRaw)
  \/ \E i \in 1..Len(sockets) : SockOpen(i)
  \/ \E i \in 1..Len(sockets) : \E frame \in ConnFrames : SockMessage(i, frame)
  \/ \E j \in 1..Len(pending) : DecodeDone(j)
  \/ \E i \in 1..Len(sockets) : SockError(i)
  \/ \E i \in 1..Len(sockets) : SockClose(i)

Spec == Init /\ [][Next]_vars

\* the connection model with the clock running
NextClock == Next \/ Tick

SpecClock == Init /\ [][NextClock]_vars

(***************************************************************************)
(* The store model: the same handlers with a feed that sends the frames    *)
(* the merge rules distinguish, as text frames, over a transport that does *)
(* not fail (the close and error handlers do not touch positionsByKey).    *)
(* Spec and SpecStore run within one reading of the clock.                 *)
(***************************************************************************)
BadFrames ==
  { [enc |-> "string", text |-> "empty", json |-> NoJson],
    GarbageFrame("string"),
    GarbageFrame("arraybuffer"),
    \* no MessageType
    [PositionFrame("string", JNum(366123456), PosFar, JUndef, JUndef)
       EXCEPT !.json.MessageType = ""],
    \* no Message
    [enc |-> "string", text |-> "json",
     json |-> [NoJson EXCEPT !.MessageType = "PositionReport",
                             !.MetaMMSI = JNum(366123456)]],
    \* a kind the handler does not know
    [PositionFrame("string", JNum(366123456), PosFar, JUndef, JUndef)
       EXCEPT !.json.MessageType = "UnknownMessage"],
    \* an 8-digit station identifier
    PositionFrame("string", JNum(36612345), PosFar, JUndef, JUndef),
    \* a 7-digit (IMO-shaped) station identifier
    PositionFrame("string", JStr(Imo2), PosFar, JUndef, JUndef),
    \* a latitude that is not a number
    [PositionFrame("string", JNum(366123456), PosFar, JUndef, JUndef)
       EXCEPT !.json.Message.PositionReport.Latitude = JStr(<<"x">>)],
    \* a static frame without a station identifier
    StaticFrame("string", JUndef, JNum(9123456)) }

StoreFrames ==
  { PositionFrame("string", JNum(366123456), PosNear, JNum(52), JNum(180)),
    PositionFrame("string", JNum(366123456), PosFar, JUndef, JUndef),
    PositionFrame("string", JStr(Mmsi1), PosNear, JUndef, JNum(511)),
    PositionFrame("string", JNum(366999001), PosFar, JNum(52), JNum(180)),
    StaticFrame("string", JNum(366123456), JNum(9123456)),
    StaticFrame("string", JNum(366123456), JUndef),
    StaticFrame("string", JNum(366123456), JNum(912345)),
    StaticFrame("string", JNum(366999001), JStr(Imo1)),
    StaticFrame("string", JNum(366123456), JNum(9234567)),
    GarbageFrame("string") }

NextStore ==
  \/ \E presetRaw \in PresetRaws : GET(presetRaw)
  \/ \E i \in 1..Len(sockets) : SockOpen(i)
  \/ \E i \in 1..Len(sockets) : \E frame \in StoreFrames : SockMessage(i, frame)

SpecStore == Init /\ [][NextStore]_vars

(***************************************************************************)
(* The decode model: the feed sends one well-formed position frame and the *)
(* frames that lack something the handler looks for.                       *)
(***************************************************************************)
\* a position frame whose Latitude is the empty string
EmptyLatitudeFrame ==
  [PositionFrame("string", JNum(366123456), PosFar, JUndef, JUndef)
     EXCEPT !.json.Message.PositionReport.Latitude = JStr(<<>>)]

\* a static frame whose hull identifier has six digits
ShortImoFrame == StaticFrame("string", JNum(366123456), JNum(912345))

\* a static frame whose station identifier has eight digits
ShortMmsiStaticFrame == StaticFrame("string", JNum(36612345), JNum(9234567))

\* a Class B position report with a 9-digit MMSI and a position; the body
\* of the report is written where the frame record keeps the body of a
\* position report, the handler looks at MessageType before any body
ClassBFrame ==
  [PositionFrame("string", JNum(366999001), PosNear, JNum(52), JNum(180))
     EXCEPT !.json.MessageType = "StandardClassBPositionReport"]

ClassBKinds == {"StandardClassBPositionReport", "ExtendedClassBPositionReport"}

DecodeFrames ==
  BadFrames \cup
  { PositionFrame("string", JNum(366123456), PosNear, JNum(52), JNum(180)),
    EmptyLatitudeFrame,
    StaticFrame("string", JNum(366123456), JNum(9123456)),
    ShortImoFrame,
    ShortMmsiStaticFrame,
    ClassBFrame }

NextDecode ==
  \/ \E presetRaw \in PresetRaws : GET(presetRaw)
  \/ \E i \in 1..Len(sockets) : SockOpen(i)
  \/ \E i \in 1..Len(sockets) : \E frame \in DecodeFrames : SockMessage(i, frame)

SpecDecode == Init /\ [][NextDecode]_vars

(***************************************************************************)
(* The timestamp model: one vessel, its position and its static data, with *)
(* the clock running between the frames.                                   *)
(***************************************************************************)
SeenFrames ==
  { PositionFrame("string", JNum(366123456), PosNear, JNum(52), JNum(180)),
    StaticFrame("string", JNum(366123456), JNum(9123456)) }

NextSeen ==
  \/ \E presetRaw \in PresetRaws : GET(presetRaw)
  \/ \E i \in 1..Len(sockets) : SockOpen(i)
  \/ \E i \in 1..Len(sockets) : \E frame \in SeenFrames : SockMessage(i, frame)
  \/ Tick

SpecSeen == Init /\ [][NextSeen]_vars

(***************************************************************************)
(* vessel-info/route.ts 308-436: the cached vessel-info route.  The clock  *)
(* of this route is read in days: Date.now() is now * TTL milliseconds.    *)
(* A request runs from its start to its first await, or to its response,   *)
(* in one step.  When the body of the upstream response has been read, the *)
(* rest of the async function (parse, cache write, return) and the         *)
(* continuations of every request awaiting its promise run in the          *)
(* microtasks of that one task, the request that created the promise       *)
(* first: one step.  The fields parsed out of the page are left out of the *)
(* data.                                                                   *)
(***************************************************************************)
\* 319
TTL == 24 * 60 * 60 * 1000

\* Date.now()
DateNow == now * TTL

\* Map.prototype.delete
MapDelete(m, k) == SelectSeq(m, LAMBDA e : e.k # k)

\* the imo query parameter, <<>> when it is absent
ShortImo == <<"9", "1", "2", "3", "4", "5">>
PaddedImo == <<" ">> \o Imo1 \o <<" ">>
RequestedImos == {<<>>, ShortImo, Imo1, Imo2, PaddedImo}

\* 409-418: the result of a fetch that succeeded
VesselData(imo) == [ok |-> TRUE, imo |-> imo]

\* 348-349: cached && cached.expiresAt > now
CacheValid(imo, t) ==
  MapHas(vesselInfoCache, imo) /\ MapGet(vesselInfoCache, imo)[1].expiresAt > t

\* a route that never looks for a fetch in flight
InflightIgnored(imo) == FALSE

\* 354: inflight.has(imo)
AwaitsInflight(imo) == MapHas(inflight, imo)

\* a fetch whose result is cached whether it succeeded or not
CacheAfterAnyFetch(cache, imo, ok, t) ==
  MapSet(cache, imo, [data |-> [ok |-> ok, imo |-> imo], expiresAt |-> t + TTL])

\* 366-368 and 420-423: a failed fetch throws before the cache is written
CacheAfter(cache, imo, ok, t) ==
  IF ok
  THEN MapSet(cache, imo, [data |-> VesselData(imo), expiresAt |-> t + TTL])
  ELSE cache

\* NextResponse.json(data) and NextResponse.json({ ok: false }, { status })
InfoResponse(imo, status, ok, f) ==
  [imo |-> imo, status |-> status, ok |-> ok, fetch |-> f]

\* 336-428: GET up to its response or its first await
InfoGET(param) ==
  LET imo == Trim(param)
  IN /\ UNCHANGED <<aisVars, movesVars>>
     /\ IF ~IsDigits(imo, 7)
        THEN /\ infoResp' = <<InfoResponse(imo, 400, FALSE, 0)>>
             /\ UNCHANGED <<vesselInfoCache, inflight, fetches>>
        ELSE IF CacheValid(imo, DateNow)
        THEN /\ infoResp' = <<InfoResponse(imo, 200, MapGet(vesselInfoCache, imo)[1].data.ok, 0)>>
             /\ UNCHANGED <<vesselInfoCache, inflight, fetches>>
        ELSE IF AwaitsInflight(imo)
        THEN LET f == MapGet(inflight, imo)[1]
             IN /\ fetches[f].waiters < MaxWaiters
                /\ fetches' = [fetches EXCEPT ![f].waiters = @ + 1]
                /\ infoResp' = <<>>
                /\ UNCHANGED <<vesselInfoCache, inflight>>
        ELSE /\ Len(fetches) < MaxFetches
             /\ fetches' = Append(fetches, [imo |-> imo, state |-> "pending", waiters |-> 1])
             /\ inflight' = MapSet(inflight, imo, Len(fetches) + 1)
             /\ infoResp' = <<>>
             /\ UNCHANGED vesselInfoCache

\* 357-425 and 429-436: the fetch settles; every request awaiting it answers
FetchSettle(f, ok) ==
  LET imo == fetches[f].imo
  IN /\ fetches[f].state = "pending"
     /\ fetches' = [fetches EXCEPT ![f].state = IF ok THEN "fulfilled" ELSE "rejected",
                                   ![f].waiters = 0]
     /\ vesselInfoCache' = CacheAfter(vesselInfoCache, imo, ok, DateNow)
     /\ inflight' = MapDelete(inflight, imo)
     /\ infoResp' = [w \in 1..fetches[f].waiters |->
                       InfoResponse(imo, IF ok THEN 200 ELSE 500, ok, f)]
     /\ UNCHANGED <<aisVars, movesVars>>

NextInfo ==
  \/ \E param \in RequestedImos : InfoGET(param)
  \/ \E f \in 1..Len(fetches) : \E ok \in BOOLEAN : FetchSettle(f, ok)
  \/ Tick

SpecInfo == Init /\ [][NextInfo]_vars

(***************************************************************************)
(* unnamed/part_005: the scheduled-moves route.  Times are in minutes (the *)
(* source gives its times to the minute, "HH:mm"), and the clock is read   *)
(* on a minute.  bestDT (62-76) is not modelled: a row carries what it     *)
(* returns for the arrival and for the departure.                          *)
(***************************************************************************)
\* number of times the clock of the route moves on, half an hour at a time
MaxMovesTicks == 2

\* 10
LATE_GRACE_MINUTES == 120

\* the event times the source publishes
EventTimes == {-180, -120, -90, 30}

PayloadRows ==
  {<<[arr |-> a, dep |-> d]>> :
     a \in {<<>>} \cup {<<t>> : t \in EventTimes},
     d \in {<<>>} \cup {<<t>> : t \in EventTimes}}

WindowParams == {"", "1h", "3h", "24h"}
DirParams == {"", "next", "past"}

\* 80-85
hoursFromWindow(window) ==
  IF window = "24h" THEN 24 ELSE IF window = "3h" THEN 3 ELSE 1

\* 113-117
WindowStart(dir, t, hours) ==
  IF dir = "past" THEN t - hours * 60 ELSE t - LATE_GRACE_MINUTES

\* 119-123
WindowEnd(dir, t, hours) ==
  IF dir = "past" THEN t - LATE_GRACE_MINUTES ELSE t + hours * 60

\* 142, 160: dt && timeType && dt >= windowStart && dt <= windowEnd
InWindow(dt, windowStart, windowEnd) ==
  dt # <<>> /\ dt[1] >= windowStart /\ dt[1] <= windowEnd

\* 129-174: the events of one row, the arrival first
RowEvents(row, windowStart, windowEnd) ==
  (IF InWindow(row.arr, windowStart, windowEnd)
   THEN <<[type |-> "ARRIVAL", time |-> row.arr[1]]>> ELSE <<>>)
  \o (IF InWindow(row.dep, windowStart, windowEnd)
      THEN <<[type |-> "DEPARTURE", time |-> row.dep[1]]>> ELSE <<>>)

RECURSIVE EventsIn(_, _, _)
EventsIn(rs, windowStart, windowEnd) ==
  IF rs = <<>> THEN <<>>
  ELSE RowEvents(Head(rs), windowStart, windowEnd)
         \o EventsIn(Tail(rs), windowStart, windowEnd)

\* 176: events.sort((a, b) => (a.timeISO < b.timeISO ? -1 : 1)); the
\* comparator never answers 0, so events of the same time come in an order
\* the sort does not fix
SortedOrders(events) ==
  {s \in [1..Len(events) -> {events[i] : i \in 1..Len(events)}] :
     /\ \A e \in 1..Len(events) :
          Cardinality({i \in 1..Len(s) : s[i] = events[e]})
            = Cardinality({i \in 1..Len(events) : events[i] = events[e]})
     /\ \A i \in 1..Len(s) - 1 : s[i].time <= s[i + 1].time}

\* 91-185
MovesGET(windowParam, dirParam, sourceOk) ==
  LET window == toLowerCase(IF windowParam # "" THEN windowParam ELSE "1h")
      dir == toLowerCase(IF dirParam # "" THEN dirParam ELSE "next")
      hours == hoursFromWindow(window)
      windowStart == WindowStart(dir, nowMinutes, hours)
      windowEnd == WindowEnd(dir, nowMinutes, hours)
  IN /\ UNCHANGED <<aisVars, infoVars, payloadRows, nowMinutes>>
     /\ IF ~sourceOk
        THEN /\ movesResp' = <<[status |-> 500, dir |-> "", window |-> "",
                                windowStart |-> 0, windowEnd |-> 0,
                                events |-> <<>>, totalInWindow |-> 0]>>
             /\ movesLists' = movesLists
        ELSE \E events \in SortedOrders(EventsIn(payloadRows, windowStart, windowEnd)) :
               /\ movesResp' = <<[status |-> 200, dir |-> dir, window |-> window,
                                  windowStart |-> windowStart, windowEnd |-> windowEnd,
                                  events |-> events, totalInWindow |-> Len(events)]>>
               /\ movesLists' = [movesLists EXCEPT
                                   ![IF dir = "past" THEN "past" ELSE "next"] =
                                     <<[hours |-> hours, events |-> events]>>]

\* 6-7, 99: the source publishes other rows
SourcePublishes(rs) ==
  /\ payloadRows' = rs
  /\ payloadRows' # payloadRows
  /\ movesResp' = <<>>
  /\ movesLists' = [d \in {"next", "past"} |-> <<>>]
  /\ UNCHANGED <<aisVars, infoVars, nowMinutes>>

\* 110: DateTime.now() moves on
MovesTick ==
  /\ nowMinutes < MaxMovesTicks * 30
  /\ nowMinutes' = nowMinutes + 30
  /\ movesResp' = <<>>
  /\ movesLists' = [d \in {"next", "past"} |-> <<>>]
  /\ UNCHANGED <<aisVars, infoVars, payloadRows>>

NextMoves ==
  \/ \E windowParam \in WindowParams : \E dirParam \in DirParams :
       \E sourceOk \in BOOLEAN : MovesGET(windowParam, dirParam, sourceOk)
  \/ \E rs \in PayloadRows : SourcePublishes(rs)
  \/ MovesTick

SpecMoves == Init /\ [][NextMoves]_vars

(***************************************************************************)
(* What the claims speak of.                                               *)
(***************************************************************************)
Mmsis == {Mmsi1, Mmsi2}

\* the record under MMSI:<mmsi>, <<>> when there is none
RecordOf(m, mmsi) == MapGet(m, MmsiKey(mmsi))

\* the imo of that record, <<>> when there is no record or no imo
ImoOf(m, mmsi) == IF RecordOf(m, mmsi) = <<>> THEN <<>> ELSE RecordOf(m, mmsi)[1].imo

\* the frame applied in the step that led to this state
AppliedFrame == applied[1].frame

IsJson(frame) == decodeWsData(frame) = "json" /\ frame.json.Message.present

\* the body the position branch reads, and the station it resolves
PositionBody(frame) ==
  IF frame.json.Message.hasPR THEN frame.json.Message.PositionReport
  ELSE frame.json.Message.top

PositionMmsi(frame) ==
  pickMmsi(frame.json, frame.json.Message.top, PositionBody(frame), NoObj)

\* a position frame the handler accepts for mmsi
IsPositionFor(frame, mmsi) ==
  /\ IsJson(frame)
  /\ frame.json.MessageType = "PositionReport"
  /\ pickLatLon(PositionBody(frame)) # <<>>
  /\ PositionMmsi(frame) = mmsi

StaticBody(frame) ==
  IF frame.json.Message.hasSD THEN frame.json.Message.ShipStaticData
  ELSE frame.json.Message.top

\* a static frame for mmsi
IsStaticFor(frame, mmsi) ==
  /\ IsJson(frame)
  /\ frame.json.MessageType = "ShipStaticData"
  /\ pickMmsi(frame.json, frame.json.Message.top, NoObj, StaticBody(frame)) = mmsi

\* the valid IMO a static frame carries, <<>> when it carries none
StaticImo(frame) == pickImo(frame.json.Message.top, NoObj, StaticBody(frame))

\* the body has none of the names of the field
Omits(v1, v2, v3) == v1.t = "undefined" /\ v2.t = "undefined" /\ v3.t = "undefined"

OmitsSog(body) == Omits(body.Sog, body.sog, body.SpeedOverGround)
OmitsCog(body) == Omits(body.Cog, body.cog, body.CourseOverGround)

SamePositionAndMotion(a, b) ==
  a.lat = b.lat /\ a.lon = b.lon /\ a.sog = b.sog /\ a.cog = b.cog

(***************************************************************************)
(* C1: at most one socket created by connectIfNeeded is CONNECTING or OPEN *)
(* at any time.                                                            *)
(* The close handler of a socket that was replaced on a bounding-box       *)
(* change sets store.ws to null, and the next query opens another socket   *)
(* beside the live one.                                                    *)
(***************************************************************************)
C1_SingleSocket == Cardinality(LiveSockets) <= 1

(***************************************************************************)
(* C2: a frame that comes from a socket subscribed to another bounding box *)
(* than the recorded one is discarded: applying it leaves the store as it  *)
(* was.                                                                    *)
(* The .then callback (216-305) never asks which socket the frame came     *)
(* from.                                                                   *)
(***************************************************************************)
C2_StaleFrameDiscarded ==
  [][(applied' # <<>> /\ StringifyBBox(sockets[applied'[1].sock].bbox) # bboxKey)
       => positionsByKey' = positionsByKey]_vars

(***************************************************************************)
(* C3: a query for another bounding box than the recorded one, arriving    *)
(* while the registered socket is CONNECTING or OPEN, closes and           *)
(* deregisters that socket, empties the store, records the new bounding    *)
(* box, registers a new socket subscribed to the new box, and answers with *)
(* an empty snapshot.                                                      *)
(***************************************************************************)
C3_BBoxChangeClears ==
  [][\A presetRaw \in PresetRaws :
       (/\ GET(presetRaw)
        /\ apiKey # ""
        /\ BBoxChanged(presetConfig(presetRaw).bbox)
        /\ ws # 0
        /\ IsLive(sockets[ws]))
       => /\ sockets'[ws].readyState = RS.CLOSING
          /\ ws' = Len(sockets) + 1
          /\ sockets'[ws'] = NewSocket(presetConfig(presetRaw).bbox)
          /\ bboxKey' = StringifyBBox(presetConfig(presetRaw).bbox)
          /\ positionsByKey' = <<>>
          /\ resp'[1].ok
          /\ resp'[1].count = 0
          /\ resp'[1].vessels = <<>>]_vars

\* a query has just replaced a live socket and dropped the vessels tracked
C3_Witness ==
  /\ resp # <<>> /\ resp[1].ok /\ resp[1].vessels = <<>>
  /\ cleared > 0
  /\ positionsByKey = <<>>
  /\ Len(sockets) >= 2 /\ ws = Len(sockets)
  /\ sockets[ws - 1].readyState = RS.CLOSING
  /\ sockets[ws - 1].bbox # sockets[ws].bbox
  /\ bboxKey = StringifyBBox(sockets[ws].bbox)

(***************************************************************************)
(* C4: once the record of an mmsi carries an IMO, a position frame, or a   *)
(* static frame without a valid IMO, for that mmsi leaves the record's imo *)
(* as it was.                                                              *)
(***************************************************************************)
C4_ImoNeverErased ==
  [][\A mmsi \in Mmsis :
       (/\ applied' # <<>>
        /\ ImoOf(positionsByKey, mmsi) # <<>>
        /\ \/ IsPositionFor(applied'[1].frame, mmsi)
           \/ IsStaticFor(applied'[1].frame, mmsi) /\ StaticImo(applied'[1].frame) = <<>>)
       => ImoOf(positionsByKey', mmsi) = ImoOf(positionsByKey, mmsi)]_vars

\* a position frame has just been merged into a record that carries an IMO
C4_Witness ==
  /\ applied # <<>>
  /\ IsPositionFor(AppliedFrame, Mmsi1)
  /\ ImoOf(positionsByKey, Mmsi1) = Imo1

(***************************************************************************)
(* C5: the vessel list of a response has at most one row per mmsi.         *)
(* GET enumerates every value of the map (331), the IMO-keyed mirrors      *)
(* included.                                                               *)
(***************************************************************************)
C5_OneRowPerMmsi ==
  resp # <<>> =>
    \A a, b \in 1..Len(resp[1].vessels) :
      resp[1].vessels[a].mmsi = resp[1].vessels[b].mmsi => a = b

(***************************************************************************)
(* C6: a static frame with a valid IMO i for an mmsi that has no record    *)
(* yet, followed by the first position frame for that mmsi, leaves a       *)
(* record with imo = i that the IMO-keyed lookup for i returns.            *)
(* The static branch (287-303) drops the frame when there is no record.    *)
(***************************************************************************)
C6_StaticBeforePosition ==
  [][\A mmsi \in Mmsis :
       (/\ applied # <<>>
        /\ IsStaticFor(AppliedFrame, mmsi)
        /\ StaticImo(AppliedFrame) # <<>>
        /\ RecordOf(positionsByKey, mmsi) = <<>>
        /\ applied' # <<>>
        /\ IsPositionFor(applied'[1].frame, mmsi))
       => /\ ImoOf(positionsByKey', mmsi) = StaticImo(AppliedFrame)
          /\ MapGet(positionsByKey', ImoKey(StaticImo(AppliedFrame)))
               = RecordOf(positionsByKey', mmsi)]_vars

(***************************************************************************)
(* C7: a position frame that omits speed (course), applied to a record     *)
(* that has one, leaves the record's sog (cog) as it was and replaces lat  *)
(* and lon by the frame's.                                                 *)
(***************************************************************************)
C7_PartialMerge ==
  [][\A mmsi \in Mmsis :
       (/\ applied' # <<>>
        /\ IsPositionFor(applied'[1].frame, mmsi)
        /\ RecordOf(positionsByKey, mmsi) # <<>>)
       => LET body == PositionBody(applied'[1].frame)
              old == RecordOf(positionsByKey, mmsi)[1]
              new == RecordOf(positionsByKey', mmsi)[1]
          IN /\ OmitsSog(body) => new.sog = old.sog
             /\ OmitsCog(body) => new.cog = old.cog
             /\ <<new.lat, new.lon>> = pickLatLon(body)]_vars

\* a frame without speed and course has just moved a vessel that keeps both
C7_Witness ==
  /\ applied # <<>>
  /\ IsPositionFor(AppliedFrame, Mmsi1)
  /\ OmitsSog(PositionBody(AppliedFrame)) /\ OmitsCog(PositionBody(AppliedFrame))
  /\ RecordOf(positionsByKey, Mmsi1)[1].sog = <<52>>
  /\ RecordOf(positionsByKey, Mmsi1)[1].cog = <<180>>
  /\ RecordOf(positionsByKey, Mmsi1)[1].lat = PosFar[1]

(***************************************************************************)
(* C8: no stored record has a cog of 511 or outside [0, 360].              *)
(* pickSogCog (131-142) keeps every finite course.                         *)
(***************************************************************************)
C8_NoInvalidCog ==
  \A e \in 1..Len(positionsByKey) :
    LET cog == positionsByKey[e].v.cog
    IN cog = <<>> \/ (cog[1] # 511 /\ cog[1] >= 0 /\ cog[1] <= 360)

(***************************************************************************)
(* C9: after a static frame with a valid IMO for an mmsi that has a        *)
(* record, the MMSI-keyed and the IMO-keyed entries both exist and hold    *)
(* the same lat, lon, sog and cog.                                         *)
(***************************************************************************)
C9_StaticMirrors ==
  \A mmsi \in Mmsis :
    (/\ applied # <<>>
     /\ IsStaticFor(AppliedFrame, mmsi)
     /\ StaticImo(AppliedFrame) # <<>>
     /\ RecordOf(positionsByKey, mmsi) # <<>>)
    => LET mirror == MapGet(positionsByKey, ImoKey(StaticImo(AppliedFrame)))
       IN /\ mirror # <<>>
          /\ SamePositionAndMotion(mirror[1], RecordOf(positionsByKey, mmsi)[1])

\* a static frame with an IMO has just been applied to a tracked vessel
C9_Witness ==
  /\ applied # <<>>
  /\ IsStaticFor(AppliedFrame, Mmsi1)
  /\ StaticImo(AppliedFrame) = Imo1
  /\ RecordOf(positionsByKey, Mmsi1) # <<>>
  /\ MapHas(positionsByKey, ImoKey(Imo1))

(***************************************************************************)
(* C10: an error or close event leaves no socket registered and sends no   *)
(* response; the next query, finding none registered, creates exactly one  *)
(* socket, registers it, and is answered ok with no error reported.        *)
(***************************************************************************)
C10_Recovery ==
  [][/\ \A i \in 1..Len(sockets) :
          (SockError(i) \/ SockClose(i)) => (ws' = 0 /\ resp' = <<>>)
     /\ \A presetRaw \in PresetRaws :
          (GET(presetRaw) /\ ws = 0 /\ sockets # <<>>)
          => /\ Len(sockets') = Len(sockets) + 1
             /\ ws' = Len(sockets')
             /\ IsLive(sockets'[ws'])
             /\ resp'[1].ok
             /\ resp'[1].lastError = ""]_vars

\* a query has just been answered ok by opening a socket after the last one
\* was closed
C10_Witness ==
  /\ resp # <<>> /\ resp[1].ok
  /\ Len(sockets) >= 2 /\ ws = Len(sockets)
  /\ sockets[ws].readyState = RS.CONNECTING
  /\ sockets[ws - 1].readyState = RS.CLOSED
  /\ sockets[ws - 1].bbox = sockets[ws].bbox
  /\ cleared = 0

(***************************************************************************)
(* C11: the first query answered after a socket error event reports that   *)
(* error: a query that finds lastError = "WebSocket error" in the store    *)
(* returns it as lastError.                                                *)
(* The error handler (315-318) also sets store.ws to null, so the query's  *)
(* connectIfNeeded creates a socket and resets lastError to null (197)     *)
(* before GET reads it (347).                                              *)
(***************************************************************************)
C11_ErrorReported ==
  [][\A presetRaw \in PresetRaws :
       (GET(presetRaw) /\ lastError = "WebSocket error")
       => resp'[1].lastError = "WebSocket error"]_vars

(***************************************************************************)
(* C12: when the API key is not configured, a query is answered with a     *)
(* structured error (ok false, status 500, an error message and the        *)
(* diagnostics as they were before the query), creates no socket, and      *)
(* leaves the position store, the recorded bounding box and the registered *)
(* socket as they were.                                                    *)
(***************************************************************************)
C12_MissingKey ==
  [][\A presetRaw \in PresetRaws :
       (GET(presetRaw) /\ apiKey = "")
       => /\ resp' # <<>>
          /\ ~resp'[1].ok
          /\ resp'[1].status = 500
          /\ resp'[1].error # ""
          /\ resp'[1].lastConnectISO = lastConnectISO
          /\ resp'[1].lastMessageISO = lastMessageISO
          /\ resp'[1].lastError = lastError
          /\ resp'[1].wsReadyState = <<>>
          /\ sockets' = sockets
          /\ UNCHANGED <<positionsByKey, bboxKey, ws>>]_vars

\* a query has just been refused for want of the key
C12_Witness ==
  /\ apiKey = ""
  /\ resp # <<>>
  /\ ~resp[1].ok
  /\ resp[1].error = "Missing AISSTREAM_API_KEY in environment."
  /\ sockets = <<>>

\* the value is a number, or text that holds one
HoldsNumber(v) ==
  v.t = "number" \/ (v.t = "string" /\ Trim(v.s) # <<>> /\ ToNumber(v) # <<>>)

\* the body gives a latitude and a longitude under one of their names
HasLatLon(body) ==
  /\ HoldsNumber(Coalesce(Coalesce(body.Latitude, body.lat), body.latitude))
  /\ HoldsNumber(Coalesce(Coalesce(body.Longitude, body.lon), body.longitude))

\* the frame lacks something a frame must have: text, JSON, a kind and a
\* body, a kind the handler knows, a position, a 9-digit station identifier
LacksRequired(frame) ==
  \/ frame.text # "json"
  \/ frame.json.MessageType = ""
  \/ ~frame.json.Message.present
  \/ frame.json.MessageType \notin {"PositionReport", "ShipStaticData"}
  \/ /\ frame.json.MessageType = "PositionReport"
     /\ \/ ~HasLatLon(PositionBody(frame))
        \/ ~IsDigits(PositionMmsi(frame), 9)
  \/ /\ frame.json.MessageType = "ShipStaticData"
     /\ \A mmsi \in Mmsis : ~IsStaticFor(frame, mmsi)

(***************************************************************************)
(* C13: a frame that is empty, is not JSON, lacks its kind or its body,    *)
(* has a kind the handler does not know, or lacks a latitude, a longitude  *)
(* or a 9-digit MMSI leaves the position store as it was.                  *)
(* pickLatLon (124-129) applies Number to the field: Number("") is 0, so a *)
(* position frame whose Latitude is "" is stored at latitude 0.            *)
(***************************************************************************)
C13_BadFrameDiscarded ==
  [][(applied' # <<>> /\ LacksRequired(applied'[1].frame))
       => positionsByKey' = positionsByKey]_vars

\* the query can be served without passing the bound on sockets
WithinSockets(presetRaw) ==
  apiKey = "" \/ KeepsSocket(presetConfig(presetRaw).bbox) \/ Len(sockets) < MaxSockets

(***************************************************************************)
(* C14: a query is answered in the step it is handled in, whatever the     *)
(* socket is doing: GET can be taken in every state, and the response it   *)
(* yields lists what the store holds at that moment (no row when the store *)
(* is empty), with the socket's state and the time of the last message as  *)
(* diagnostics.                                                            *)
(***************************************************************************)
C14_NeverWaits ==
  /\ \A presetRaw \in PresetRaws : WithinSockets(presetRaw) => ENABLED GET(presetRaw)
  /\ (resp # <<>> /\ resp[1].ok)
     => /\ resp[1].count = Len(positionsByKey)
        /\ \A r \in 1..Len(resp[1].vessels) :
             \E e \in 1..Len(positionsByKey) :
               /\ resp[1].vessels[r].mmsi = positionsByKey[e].v.mmsi
               /\ resp[1].vessels[r].lat = positionsByKey[e].v.lat
               /\ resp[1].vessels[r].lon = positionsByKey[e].v.lon
        /\ resp[1].wsReadyState = <<sockets[ws].readyState>>
        /\ resp[1].lastMessageISO = lastMessageISO

\* a query has just been answered, with an empty list, while its socket is
\* still connecting and has delivered nothing
C14_Witness ==
  /\ resp # <<>> /\ resp[1].ok
  /\ resp[1].vessels = <<>> /\ resp[1].count = 0
  /\ resp[1].wsReadyState = <<RS.CONNECTING>>
  /\ resp[1].lastMessageISO = <<>>
  /\ sockets[ws].readyState = RS.CONNECTING

(***************************************************************************)
(* C15: a query that reconnects with the recorded bounding box after the   *)
(* socket closed or failed finds the store empty and returns no vessel.    *)
(* connectIfNeeded clears the store only inside the bounding-box check     *)
(* (180-188); the close and error handlers (311-318) leave it alone.       *)
(***************************************************************************)
C15_ReconnectRebuilds ==
  [][\A presetRaw \in PresetRaws :
       (/\ GET(presetRaw)
        /\ apiKey # ""
        /\ ws = 0 /\ sockets # <<>>
        /\ sockets[Len(sockets)].readyState = RS.CLOSED
        /\ ~BBoxChanged(presetConfig(presetRaw).bbox))
       => /\ positionsByKey' = <<>>
          /\ resp'[1].vessels = <<>>]_vars

(***************************************************************************)
(* C16: the vessel list of a response is in non-decreasing order of        *)
(* distanceMi: a row never follows one that is farther from the reference  *)
(* point.                                                                  *)
(***************************************************************************)
C16_SortedByDistance ==
  resp # <<>> =>
    \A i, j \in 1..Len(resp[1].vessels) :
      i < j => resp[1].vessels[i].distanceMi <= resp[1].vessels[j].distanceMi

\* the vessel half a mile away was stored after the one two miles away and
\* is listed before it
C16_Witness ==
  /\ resp # <<>> /\ resp[1].ok
  /\ Len(resp[1].vessels) = 2
  /\ resp[1].vessels[1].mmsi = Mmsi1 /\ resp[1].vessels[1].distanceMi = 500
  /\ resp[1].vessels[2].mmsi = Mmsi2 /\ resp[1].vessels[2].distanceMi = 2002
  /\ positionsByKey[1].v.mmsi = Mmsi2
  /\ positionsByKey[2].v.mmsi = Mmsi1

\* the result caps the model's callers ask for
RequestedCaps == {1, 2}

\* route.ts 325-350 for a request that carries limit=<cap>: the handler
\* reads the preset and debug parameters only (326, 338) and slices at 200
GETWithLimit(presetRaw, cap) == GET(presetRaw)

(***************************************************************************)
(* C17: the vessel list of a query that asks for at most cap rows holds    *)
(* the min(count, cap) nearest vessels.                                    *)
(* GET never reads a cap from the request and always slices at 200 (350).  *)
(***************************************************************************)
C17_CapHonoured ==
  [][\A presetRaw \in PresetRaws : \A cap \in RequestedCaps :
       (GETWithLimit(presetRaw, cap) /\ apiKey # "")
       => Len(resp'[1].vessels)
            = IF resp'[1].count < cap THEN resp'[1].count ELSE cap]_vars

\* the fields of a stored record (AisPosition, route.ts 7-15)
RecordFields == {"imo", "mmsi", "lat", "lon", "sog", "cog", "lastSeenISO"}

(***************************************************************************)
(* C18: after a position frame with a 9-digit MMSI and a numeric latitude  *)
(* and longitude, the MMSI-keyed record has exactly the frame's latitude   *)
(* and longitude; every row of a response carries the lat and lon of an    *)
(* entry of the store for its mmsi and, as distanceMi, haversineMiles from *)
(* the reference point of the queried preset to them; no stored record has *)
(* a distanceMi.                                                           *)
(***************************************************************************)
C18_PositionAndDistance ==
  [][/\ \A mmsi \in Mmsis :
          (applied' # <<>> /\ IsPositionFor(applied'[1].frame, mmsi))
          => LET body == PositionBody(applied'[1].frame)
                 rec == RecordOf(positionsByKey', mmsi)
             IN /\ rec # <<>>
                /\ body.Latitude.t = "number" /\ rec[1].lat = body.Latitude.n
                /\ body.Longitude.t = "number" /\ rec[1].lon = body.Longitude.n
     /\ \A presetRaw \in PresetRaws :
          (GET(presetRaw) /\ apiKey # "")
          => LET ref == presetConfig(presetRaw).cityHall
             IN \A r \in 1..Len(resp'[1].vessels) :
                  LET row == resp'[1].vessels[r]
                  IN /\ \E e \in 1..Len(positionsByKey') :
                          /\ positionsByKey'[e].v.mmsi = row.mmsi
                          /\ positionsByKey'[e].v.lat = row.lat
                          /\ positionsByKey'[e].v.lon = row.lon
                     /\ row.distanceMi = haversineMiles(ref.lat, ref.lon, row.lat, row.lon)
     /\ \A e \in 1..Len(positionsByKey') :
          DOMAIN positionsByKey'[e].v = RecordFields]_vars

\* a New York query has just listed the vessel reported near Savannah, at
\* its distance from New York
C18_Witness ==
  /\ resp # <<>> /\ resp[1].ok
  /\ resp[1].preset = "ny"
  /\ Len(resp[1].vessels) = 1
  /\ resp[1].vessels[1].mmsi = Mmsi1
  /\ <<resp[1].vessels[1].lat, resp[1].vessels[1].lon>> = PosNear
  /\ resp[1].vessels[1].distanceMi = 713787
  /\ RecordOf(positionsByKey, Mmsi1)[1].lat = PosNear[1]

\* the points the route measures between: the reference points of the
\* presets and the positions in the store
Points ==
  { <<SavCityHall.lat, SavCityHall.lon>>, <<NyCityHall.lat, NyCityHall.lon>> }
  \cup { <<positionsByKey[e].v.lat, positionsByKey[e].v.lon>> : e \in 1..Len(positionsByKey) }

Addresses(frame, mmsi) == IsPositionFor(frame, mmsi) \/ IsStaticFor(frame, mmsi)

\* the number of frames that were delivered before the frame the step
\* applies and are still waiting for their text: all that wait when the
\* frame is applied as it is delivered, else those ahead of it in pending
WaitingAhead ==
  IF Len(pending') = Len(pending) THEN Len(pending)
  ELSE (CHOOSE j \in 1..Len(pending) :
          /\ pending[j] = applied'[1]
          /\ \A k \in 1..(j - 1) : pending[k] # applied'[1]) - 1

(***************************************************************************)
(* C20: frames are applied in the order they are delivered: when the       *)
(* update of a frame is applied, no frame delivered before it on the same  *)
(* socket for the same mmsi is still waiting to be applied.                *)
(* A Blob is applied when its text() resolves (150-152, 215-216), a string *)
(* in the microtask after its message event, so a string frame overtakes   *)
(* the Blob delivered before it and the record ends with the older data.   *)
(***************************************************************************)
C20_DeliveryOrder ==
  [][applied' # <<>> =>
       \A k \in 1..WaitingAhead :
         ~(/\ pending[k].sock = applied'[1].sock
           /\ \E mmsi \in Mmsis :
                /\ Addresses(pending[k].frame, mmsi)
                /\ Addresses(applied'[1].frame, mmsi))]_vars

(***************************************************************************)
(* C21: a position frame for an mmsi whose record carries an IMO leaves    *)
(* the IMO-keyed entry equal to the new MMSI-keyed record: same lat, lon,  *)
(* sog, cog and lastSeenISO.                                               *)
(***************************************************************************)
C21_MirrorRefreshed ==
  [][\A mmsi \in Mmsis :
       (/\ applied' # <<>>
        /\ IsPositionFor(applied'[1].frame, mmsi)
        /\ ImoOf(positionsByKey, mmsi) # <<>>)
       => LET rec == RecordOf(positionsByKey', mmsi)
              mirror == MapGet(positionsByKey', ImoKey(ImoOf(positionsByKey, mmsi)))
          IN /\ rec # <<>> /\ mirror # <<>>
             /\ SamePositionAndMotion(mirror[1], rec[1])
             /\ mirror[1].lastSeenISO = rec[1].lastSeenISO
             /\ <<rec[1].lat, rec[1].lon>> = pickLatLon(PositionBody(applied'[1].frame))]_vars

\* a position frame has just moved a vessel with an IMO, and its mirror
\* with it
C21_Witness ==
  /\ applied # <<>>
  /\ IsPositionFor(AppliedFrame, Mmsi1)
  /\ pickLatLon(PositionBody(AppliedFrame)) = PosFar
  /\ ImoOf(positionsByKey, Mmsi1) = Imo1
  /\ MapGet(positionsByKey, ImoKey(Imo1)) # <<>>
  /\ MapGet(positionsByKey, ImoKey(Imo1))[1].lat = PosFar[1]
  /\ MapGet(positionsByKey, ImoKey(Imo1))[1].lon = PosFar[2]

\* the key is an IMO key
IsImoKey(k) == k[1] = "I"

(***************************************************************************)
(* C22: every IMO-keyed entry of the store equals the MMSI-keyed entry of  *)
(* the mmsi it names: same mmsi, lat, lon, sog and cog.                    *)
(* A static frame that gives an mmsi another IMO writes the new IMO key    *)
(* (300-302) and leaves the entry under the old IMO where it was; the      *)
(* position frames that follow refresh the new key only (273-275).         *)
(***************************************************************************)
C22_MirrorConsistent ==
  \A e \in 1..Len(positionsByKey) :
    IsImoKey(positionsByKey[e].k)
    => LET mirror == positionsByKey[e].v
           rec == RecordOf(positionsByKey, mirror.mmsi)
       IN /\ rec # <<>>
          /\ SamePositionAndMotion(mirror, rec[1])

(***************************************************************************)
(* C23: a static frame for an mmsi leaves the lastSeenISO of its record as *)
(* the last position frame set it.                                         *)
(* The static branch builds the patched record with lastSeenISO: new       *)
(* Date().toISOString() (295).                                             *)
(***************************************************************************)
C23_StaticKeepsLastSeen ==
  [][\A mmsi \in Mmsis :
       (/\ applied' # <<>>
        /\ IsStaticFor(applied'[1].frame, mmsi)
        /\ RecordOf(positionsByKey, mmsi) # <<>>)
       => /\ RecordOf(positionsByKey', mmsi) # <<>>
          /\ RecordOf(positionsByKey', mmsi)[1].lastSeenISO
               = RecordOf(positionsByKey, mmsi)[1].lastSeenISO]_vars

(***************************************************************************)
(* C24: every key of the store is MMSI: followed by 9 digits or IMO:       *)
(* followed by 7 digits, every record's mmsi is 9 digits and every         *)
(* record's imo is absent or 7 digits; an identifier of another shape      *)
(* gives no key and no field.                                              *)
(***************************************************************************)
C24_IdentityShapes ==
  \A e \in 1..Len(positionsByKey) :
    LET k == positionsByKey[e].k
        rec == positionsByKey[e].v
    IN /\ \/ /\ Len(k) = 14
             /\ k = MmsiKey(SubSeq(k, 6, 14))
             /\ IsDigits(SubSeq(k, 6, 14), 9)
          \/ /\ Len(k) = 11
             /\ k = ImoKey(SubSeq(k, 5, 11))
             /\ IsDigits(SubSeq(k, 5, 11), 7)
       /\ IsDigits(rec.mmsi, 9)
       /\ rec.imo = <<>> \/ IsDigits(rec.imo, 7)

\* a six-digit hull identifier has just been offered for a vessel on record
C24_Witness ==
  /\ applied # <<>>
  /\ applied[1].frame = ShortImoFrame
  /\ RecordOf(positionsByKey, Mmsi1) # <<>>
  /\ ImoOf(positionsByKey, Mmsi1) = Imo1
  /\ MapHas(positionsByKey, ImoKey(Imo1))

(***************************************************************************)
(* C25: a query sees whole frames only.  After every step the record of a  *)
(* vessel and the mirror under the record's IMO that names the vessel are  *)
(* equal in every field; the rows of a response are the entries of the     *)
(* store, so two rows for the same mmsi and imo are equal; and the record  *)
(* holds the position of the frame applied last.                           *)
(***************************************************************************)
WholeFrames(m) ==
  \A e, f \in 1..Len(m) :
    (/\ m[e].v.mmsi = m[f].v.mmsi
     /\ m[e].v.imo # <<>>
     /\ m[e].v.imo = m[f].v.imo)
    => m[e].v = m[f].v

RowsOfStore(response, m) ==
  /\ Len(response.vessels) = Len(m)
  /\ \A e \in 1..Len(m) :
       Cardinality({r \in 1..Len(response.vessels) :
                      response.vessels[r] = SnapshotRow(m[e].v, response.cityHall)})
         = Cardinality({f \in 1..Len(m) : m[f].v = m[e].v})

C25_NoTornRead ==
  [][/\ WholeFrames(positionsByKey')
     /\ (resp' # <<>> /\ resp'[1].ok) => RowsOfStore(resp'[1], positionsByKey')
     /\ \A mmsi \in Mmsis :
          (/\ applied' # <<>>
           /\ IsPositionFor(applied'[1].frame, mmsi))
          => /\ RecordOf(positionsByKey', mmsi) # <<>>
             /\ <<RecordOf(positionsByKey', mmsi)[1].lat,
                  RecordOf(positionsByKey', mmsi)[1].lon>>
                  = pickLatLon(PositionBody(applied'[1].frame))
             /\ RecordOf(positionsByKey', mmsi)[1].lastSeenISO = now]_vars

\* a response with the record and its mirror, after a second position frame
\* has overwritten the first
C25_Witness ==
  /\ resp # <<>>
  /\ resp[1].ok
  /\ \E r, q \in 1..Len(resp[1].vessels) :
       /\ r # q
       /\ resp[1].vessels[r] = resp[1].vessels[q]
       /\ resp[1].vessels[r].mmsi = Mmsi1
       /\ resp[1].vessels[r].imo # <<>>
       /\ <<resp[1].vessels[r].lat, resp[1].vessels[r].lon>> = PosFar
       /\ resp[1].vessels[r].sog # <<>>

(***************************************************************************)
(* C26: the key set of the store changes only by additions or by the clear *)
(* of the whole store on a bounding-box change; a record for an mmsi       *)
(* appears only when a position frame for that mmsi is applied, and a      *)
(* static frame for an mmsi without a record leaves the store as it was.   *)
(***************************************************************************)
C26_RecordLifecycle ==
  [][/\ \/ MapKeys(positionsByKey) \subseteq MapKeys(positionsByKey')
        \/ /\ positionsByKey' = <<>>
           /\ \E presetRaw \in PresetRaws :
                /\ GET(presetRaw)
                /\ BBoxChanged(presetConfig(presetRaw).bbox)
     /\ \A mmsi \in Mmsis :
          (RecordOf(positionsByKey, mmsi) = <<>> /\ RecordOf(positionsByKey', mmsi) # <<>>)
          => /\ applied' # <<>>
             /\ IsPositionFor(applied'[1].frame, mmsi)
     /\ \A mmsi \in Mmsis :
          (/\ applied' # <<>>
           /\ IsStaticFor(applied'[1].frame, mmsi)
           /\ RecordOf(positionsByKey, mmsi) = <<>>)
          => positionsByKey' = positionsByKey]_vars

\* static data with a hull identifier has just come for a vessel without a
\* record, while another vessel has one
C26_Witness ==
  /\ applied # <<>>
  /\ IsStaticFor(applied[1].frame, Mmsi2)
  /\ StaticImo(applied[1].frame) # <<>>
  /\ RecordOf(positionsByKey, Mmsi2) = <<>>
  /\ RecordOf(positionsByKey, Mmsi1) # <<>>

(***************************************************************************)
(* C27: a socket is created only by a query, inside its connectIfNeeded,   *)
(* and one at most per query: no open, message, close or error event and   *)
(* no decode callback changes the number of sockets.                       *)
(***************************************************************************)
C27_LazyReconnect ==
  [][/\ Len(sockets') # Len(sockets)
        => /\ Len(sockets') = Len(sockets) + 1
           /\ sockets'[Len(sockets')].readyState = RS.CONNECTING
           /\ ws' = Len(sockets')
           /\ resp' # <<>>
           /\ \E presetRaw \in PresetRaws :
                /\ GET(presetRaw)
                /\ apiKey # ""
                /\ ~KeepsSocket(presetConfig(presetRaw).bbox)
     /\ \A i \in 1..Len(sockets) :
          (SockOpen(i) \/ SockError(i) \/ SockClose(i)
             \/ \E frame \in ConnFrames : SockMessage(i, frame))
          => Len(sockets') = Len(sockets)
     /\ \A j \in 1..Len(pending) : DecodeDone(j) => Len(sockets') = Len(sockets)]_vars

\* the registered socket has failed and nothing has replaced it
C27_Witness ==
  /\ sockets # <<>>
  /\ ws = 0
  /\ lastError = "WebSocket error"
  /\ resp = <<>>
  /\ \A i \in 1..Len(sockets) : sockets[i].readyState = RS.CLOSED
  /\ Len(sockets) < MaxSockets

(***************************************************************************)
(* C28: a subscription is sent exactly when a socket opens, by that        *)
(* socket, with the API key, the bounding box the socket was created for   *)
(* and the two message kinds; a socket opens once, so it is sent once, and *)
(* frames are taken only from a socket that has opened.                    *)
(***************************************************************************)
C28_SubscribeOnOpen ==
  [][/\ sent' # <<>>
        <=> \E i \in 1..Len(sockets) :
              /\ sockets[i].readyState = RS.CONNECTING
              /\ sockets'[i].readyState = RS.OPEN
     /\ \A i \in 1..Len(sockets) :
          (sockets[i].readyState = RS.CONNECTING /\ sockets'[i].readyState = RS.OPEN)
          => /\ Len(sent') = 1
             /\ sent'[1].sock = i
             /\ sent'[1].APIKey = apiKey
             /\ sent'[1].APIKey # ""
             /\ sent'[1].BoundingBoxes = sockets[i].bbox
             /\ sent'[1].BoundingBoxes \in {SavBBox, NyBBox}
             /\ sent'[1].FilterMessageTypes = <<"PositionReport", "ShipStaticData">>
     /\ \A i \in 1..Len(sockets) :
          /\ sockets[i].readyState # RS.CONNECTING
               => sockets'[i].readyState # RS.CONNECTING
          /\ sockets'[i].bbox = sockets[i].bbox
     /\ \A i \in 1..Len(sockets) :
          (\E frame \in ConnFrames : SockMessage(i, frame))
          => sockets[i].readyState = RS.OPEN]_vars

\* the second socket, created for New York, has just subscribed
C28_Witness ==
  /\ sent # <<>>
  /\ sent[1].sock = 2
  /\ sent[1].BoundingBoxes = NyBBox
  /\ sockets[1].bbox = SavBBox
  /\ sockets[2].readyState = RS.OPEN

(***************************************************************************)
(* C29: the subscription names the Class B position kinds, and a frame of  *)
(* such a kind with a 9-digit MMSI and a position changes the store as the *)
(* same frame tagged PositionReport would.                                 *)
(* The filter sent on open is ["PositionReport", "ShipStaticData"]         *)
(* (203-205) and the handler has a branch for these two kinds only (247,   *)
(* 278).                                                                   *)
(***************************************************************************)
C29_ClassBAccepted ==
  [][/\ sent' # <<>>
        => \A kind \in ClassBKinds :
             \E n \in 1..Len(sent'[1].FilterMessageTypes) :
               sent'[1].FilterMessageTypes[n] = kind
     /\ (/\ applied' # <<>>
         /\ IsJson(applied'[1].frame)
         /\ applied'[1].frame.json.MessageType \in ClassBKinds)
        => positionsByKey'
             = ApplyFrame(positionsByKey,
                          [applied'[1].frame EXCEPT !.json.MessageType = "PositionReport"],
                          now)]_vars

(***************************************************************************)
(* C30: a close or error event of a socket that is not the registered one  *)
(* leaves store.ws and lastError as they were.                             *)
(* Both handlers assign store.ws = null (312, 317), and the error handler  *)
(* lastError (316), without looking at which socket fired.                 *)
(***************************************************************************)
C30_StaleEventIgnored ==
  [][\A i \in 1..Len(sockets) :
       (/\ SockClose(i) \/ SockError(i)
        /\ ws # 0
        /\ i # ws)
       => /\ ws' = ws
          /\ lastError' = lastError]_vars

(***************************************************************************)
(* C31: a query for the recorded bounding box that finds the registered    *)
(* socket CONNECTING or OPEN leaves the sockets, the registration, the     *)
(* positions, bboxKey, lastConnectISO, lastMessageISO and lastError as     *)
(* they were.                                                              *)
(***************************************************************************)
C31_SameBoxQueryIdle ==
  [][\A presetRaw \in PresetRaws :
       (/\ GET(presetRaw)
        /\ apiKey # ""
        /\ bboxKey = StringifyBBox(presetConfig(presetRaw).bbox)
        /\ ws # 0
        /\ IsLive(sockets[ws]))
       => /\ UNCHANGED <<sockets, ws, positionsByKey, bboxKey, lastConnectISO,
                         lastMessageISO, lastError>>
          /\ resp'[1].ok]_vars

\* a query has just been answered from a store that holds a vessel, over
\* the socket that delivered it
C31_Witness ==
  /\ resp # <<>>
  /\ resp[1].ok
  /\ resp[1].count > 0
  /\ Len(sockets) = 1
  /\ ws = 1
  /\ sockets[1].readyState = RS.OPEN
  /\ lastMessageISO # <<>>

(***************************************************************************)
(* C32: a static frame for an mmsi with a record leaves every field of the *)
(* record but its imo as it was (lat, lon, sog and cog among them); for an *)
(* mmsi without a record it leaves the store as it was.                    *)
(* lat, lon, sog and cog are copied from the record (291-292), but the     *)
(* patched record also takes lastSeenISO: new Date().toISOString() (295).  *)
(***************************************************************************)
C32_StaticChangesImoOnly ==
  [][\A mmsi \in Mmsis :
       (/\ applied' # <<>>
        /\ IsStaticFor(applied'[1].frame, mmsi))
       => IF RecordOf(positionsByKey, mmsi) = <<>>
          THEN positionsByKey' = positionsByKey
          ELSE /\ RecordOf(positionsByKey', mmsi) # <<>>
               /\ \A field \in RecordFields \ {"imo"} :
                    RecordOf(positionsByKey', mmsi)[1][field]
                      = RecordOf(positionsByKey, mmsi)[1][field]]_vars

(***************************************************************************)
(* C33: while a socket is registered, the bounding box its open handler    *)
(* subscribes with is the one recorded in bboxKey; and the store holds no  *)
(* record while bboxKey is null.                                           *)
(***************************************************************************)
C33_RegisteredBoxRecorded ==
  /\ ws # 0 => /\ ws \in 1..Len(sockets)
               /\ bboxKey = StringifyBBox(sockets[ws].bbox)
               /\ sockets[ws].readyState = RS.CONNECTING
                    => Subscription(ws).BoundingBoxes = sockets[ws].bbox
  /\ bboxKey = "" => positionsByKey = <<>> /\ ws = 0 /\ sockets = <<>>

\* the socket registered after a change of bounding box has delivered a
\* vessel
C33_Witness ==
  /\ Len(sockets) >= 2
  /\ ws = 2
  /\ sockets[1].bbox = SavBBox
  /\ sockets[2].bbox = NyBBox
  /\ bboxKey = StringifyBBox(NyBBox)
  /\ positionsByKey # <<>>

(***************************************************************************)
(* C34: lastMessageISO is set when a frame is received, before its payload *)
(* is decoded and whether or not the frame is then discarded; it returns   *)
(* to null only in a query that changes the bounding box.                  *)
(***************************************************************************)
C34_LastMessageOnReceipt ==
  [][/\ (\/ Len(pending') > Len(pending)
         \/ applied' # <<>> /\ Len(pending') = Len(pending))
        => lastMessageISO' = <<now>>
     /\ Len(pending') > Len(pending)
        => positionsByKey' = positionsByKey /\ applied' = <<>>
     /\ (lastMessageISO # <<>> /\ lastMessageISO' = <<>>)
        => \E presetRaw \in PresetRaws :
             /\ GET(presetRaw)
             /\ BBoxChanged(presetConfig(presetRaw).bbox)]_vars

\* a frame that is not JSON has been received and discarded: a message time
\* and no vessel
C34_Witness ==
  /\ applied # <<>>
  /\ ~IsJson(applied[1].frame)
  /\ lastMessageISO # <<>>
  /\ positionsByKey = <<>>
  /\ pending = <<>>

(***************************************************************************)
(* C35: the vessel-info route has at most one fetch in flight for an IMO,  *)
(* and inflight names it; a request for an IMO whose fetch is in flight    *)
(* joins that fetch and starts none; a request that finds an unexpired     *)
(* cache entry is answered from it and starts none.                        *)
(***************************************************************************)
PendingFor(fs, imo) == {f \in 1..Len(fs) : fs[f].imo = imo /\ fs[f].state = "pending"}

C35_OneFetchInFlight ==
  [][/\ \A f \in 1..Len(fetches') :
          fetches'[f].state = "pending"
          => /\ PendingFor(fetches', fetches'[f].imo) = {f}
             /\ MapGet(inflight', fetches'[f].imo) = <<f>>
     /\ \A param \in RequestedImos :
          (/\ InfoGET(param)
           /\ PendingFor(fetches, Trim(param)) # {})
          => /\ Len(fetches') = Len(fetches)
             /\ \A f \in PendingFor(fetches, Trim(param)) :
                  fetches'[f] = [fetches[f] EXCEPT !.waiters = @ + 1]
             /\ inflight' = inflight
             /\ infoResp' = <<>>
     /\ \A param \in RequestedImos :
          (/\ InfoGET(param)
           /\ IsDigits(Trim(param), 7)
           /\ CacheValid(Trim(param), DateNow))
          => /\ fetches' = fetches
             /\ inflight' = inflight
             /\ infoResp' = <<InfoResponse(Trim(param), 200, TRUE, 0)>>]_vars

\* a second fetch for an IMO, started after its cache entry expired, has
\* two requests awaiting it
C35_Witness ==
  /\ Len(fetches) >= 2
  /\ fetches[1] = [imo |-> Imo1, state |-> "fulfilled", waiters |-> 0]
  /\ fetches[2] = [imo |-> Imo1, state |-> "pending", waiters |-> 2]
  /\ MapHas(vesselInfoCache, Imo1)
  /\ MapGet(inflight, Imo1) = <<2>>

(***************************************************************************)
(* C36: when a fetch of the vessel-info route settles, its IMO leaves      *)
(* inflight and every request awaiting it is answered.  After a failure    *)
(* the cache is as it was and the answers are errors (500); after a        *)
(* success the cache holds the result with expiresAt 24 hours after the    *)
(* write and the answers carry it.  The cache changes in no other step,    *)
(* and a request that finds neither a valid entry nor a fetch in flight    *)
(* starts a fetch.                                                         *)
(***************************************************************************)
C36_FailureNotCached ==
  [][/\ \A f \in 1..Len(fetches) :
          (fetches[f].state = "pending" /\ fetches'[f].state # "pending")
          => LET imo == fetches[f].imo
             IN /\ ~MapHas(inflight', imo)
                /\ fetches[f].waiters >= 1
                /\ Len(infoResp') = fetches[f].waiters
                /\ IF fetches'[f].state = "rejected"
                   THEN /\ vesselInfoCache' = vesselInfoCache
                        /\ \A w \in 1..Len(infoResp') :
                             infoResp'[w] = InfoResponse(imo, 500, FALSE, f)
                   ELSE /\ MapGet(vesselInfoCache', imo)
                             = <<[data |-> VesselData(imo),
                                  expiresAt |-> DateNow + 24 * 60 * 60 * 1000]>>
                        /\ \A w \in 1..Len(infoResp') :
                             infoResp'[w] = InfoResponse(imo, 200, TRUE, f)
     /\ vesselInfoCache' # vesselInfoCache
        => \E f \in 1..Len(fetches) :
             fetches[f].state = "pending" /\ fetches'[f].state = "fulfilled"
     /\ \A e \in 1..Len(vesselInfoCache') : vesselInfoCache'[e].v.data.ok
     /\ \A param \in RequestedImos :
          (/\ InfoGET(param)
           /\ IsDigits(Trim(param), 7)
           /\ ~CacheValid(Trim(param), DateNow)
           /\ ~MapHas(inflight, Trim(param)))
          => /\ fetches' = Append(fetches, [imo |-> Trim(param), state |-> "pending",
                                            waiters |-> 1])
             /\ infoResp' = <<>>]_vars

\* after a failed fetch that left nothing in the cache, a request has
\* started a fresh fetch for the same IMO
C36_Witness ==
  /\ Len(fetches) = 2
  /\ fetches[1] = [imo |-> Imo1, state |-> "rejected", waiters |-> 0]
  /\ fetches[2] = [imo |-> Imo1, state |-> "pending", waiters |-> 1]
  /\ vesselInfoCache = <<>>
  /\ infoResp = <<>>

(***************************************************************************)
(* C37: for one reading of the clock and one window size, no event time is *)
(* in both the dir=next list and the dir=past list.                        *)
(* Both filters are closed intervals (dt >= windowStart && dt <=           *)
(* windowEnd, 142 and 160): now minus the grace period is the start of the *)
(* next window (117) and the end of the past window (121).                 *)
(***************************************************************************)
C37_WindowsDisjoint ==
  (/\ movesLists["next"] # <<>>
   /\ movesLists["past"] # <<>>
   /\ movesLists["next"][1].hours = movesLists["past"][1].hours)
  => \A i \in 1..Len(movesLists["next"][1].events) :
       \A j \in 1..Len(movesLists["past"][1].events) :
         movesLists["next"][1].events[i].time # movesLists["past"][1].events[j].time

(***************************************************************************)
(* C38: a dir=past response has windowStart <= windowEnd for the windows   *)
(* 1h, 3h and 24h, and returns the events of the source whose time lies    *)
(* between now minus the window and now minus the grace period.            *)
(* For 1h the window is one hour and the grace period two (10, 84, 115,    *)
(* 121).                                                                   *)
(***************************************************************************)
C38_PastWindowWellFormed ==
  (/\ movesResp # <<>>
   /\ movesResp[1].status = 200
   /\ movesResp[1].dir = "past"
   /\ movesResp[1].window \in {"1h", "3h", "24h"})
  => LET fromWindow == nowMinutes - hoursFromWindow(movesResp[1].window) * 60
         fromGrace == nowMinutes - 120
     IN /\ movesResp[1].windowStart <= movesResp[1].windowEnd
        /\ \A r \in 1..Len(payloadRows) : \A dt \in {payloadRows[r].arr, payloadRows[r].dep} :
             (/\ dt # <<>>
              /\ \/ fromWindow <= dt[1] /\ dt[1] <= fromGrace
                 \/ fromGrace <= dt[1] /\ dt[1] <= fromWindow)
             => \E e \in 1..Len(movesResp[1].events) : movesResp[1].events[e].time = dt[1]

(***************************************************************************)
(* C39: the record stored under MMSI:m has mmsi = m and the record stored  *)
(* under IMO:i has imo = i.                                                *)
(***************************************************************************)
C39_KeyMatchesRecord ==
  \A e \in 1..Len(positionsByKey) :
    LET k == positionsByKey[e].k
        rec == positionsByKey[e].v
    IN IF k[1] = "M"
       THEN /\ SubSeq(k, 1, 5) = <<"M", "M", "S", "I", ":">>
            /\ SubSeq(k, 6, Len(k)) = rec.mmsi
       ELSE /\ SubSeq(k, 1, 4) = <<"I", "M", "O", ":">>
            /\ SubSeq(k, 5, Len(k)) = rec.imo

\* a vessel whose hull identifier changed has a record and two mirrors
C39_Witness ==
  /\ ImoOf(positionsByKey, Mmsi1) = Imo2
  /\ MapHas(positionsByKey, ImoKey(Imo1))
  /\ MapHas(positionsByKey, ImoKey(Imo2))
  /\ MapGet(positionsByKey, ImoKey(Imo1))[1].mmsi = Mmsi1
  /\ Len(positionsByKey) = 3

====
